---- MODULE Spec2Model ----
(***************************************************************************)
(* A model of the SafeMind client: the attestation verifier and its        *)
(* process-wide cache (lib/near-ai.ts, lib/crypto.ts), the response        *)
(* integrity verifier, the streaming chat call (streamChat), the encrypted *)
(* vault (lib/storage.ts) and the parts of the page component              *)
(* (app/page.tsx) that drive them: credentials, vault lock and load, the   *)
(* retention sweep, delete-all, and one streaming exchange.  The message   *)
(* encryption (lib/crypto.ts) is modelled twice: by what it seals for whom *)
(* inside streamChat, and on bytes for its layout and round trip.          *)
(*                                                                         *)
(* JavaScript strings whose contents the code inspects are sequences of    *)
(* one-character strings; opaque identifiers are TLA+ strings.             *)
(***************************************************************************)
EXTENDS Integers, Sequences, FiniteSets, TLC

VARIABLES
    \* ---- attestation verifier as a function: one check, its input and result
    atResp,             \* the transport's answer to the attestation request
    atSeed,             \* what the random source gave this check
    atOut,              \* the outcome of fetchModelPublicKey, or AtPending
    \* ---- response integrity verifier as a function: one verification
    vfIn,               \* chat id, the two hashed texts, the signature endpoint's answer
    vfOut,              \* the outcome of buildVerification, or AtPending
    \* ---- process-wide attestation cache and the page's credential state
    cachedAttestation,  \* near-ai.ts: let cachedAttestation
    apiKey,             \* page.tsx: useState apiKey
    attestation,        \* page.tsx: useState attestation
    apiKeyRequired,     \* page.tsx: useState apiKeyRequired
    effectDue,          \* the [apiKey] effect is scheduled and has not run yet
    inflight,           \* getAttestation calls awaiting the attestation response
    fetchCount,         \* attestation requests issued so far (the random source's draws)
    cachedCred,         \* history: the credential the cached report was fetched under
    lastDone,           \* history: the latest completed request, its response and outcome
    firstReturned,      \* history: what the first call issued since the last clear to succeed returned
    lastCall,           \* history: what the latest call issued on a filled cache returned
    \* ---- the vault (storage.ts) and the page state that drives it
    now,                \* Date.now(), in milliseconds since the page was loaded
    uuids,              \* how many conversation ids crypto.randomUUID has given out
    vaultPassphrase,    \* page.tsx: useState vaultPassphrase
    vaultModalOpen,     \* page.tsx: useState vaultModalOpen
    vaultError,         \* page.tsx: useState vaultError
    conversations,      \* page.tsx: useState conversations
    activeConvoId,      \* page.tsx: useState activeConvoId
    store,              \* the IndexedDB object store, keyed by conversation id
    calls,              \* saveConversation and deleteConversation calls, in issue order
    load,               \* the getAllConversations call of the vault load effect
    swept,              \* history: the latest purgeExpired, what it found and what it left
    \* ---- one streaming exchange of handleSubmit
    isTyping,           \* page.tsx: useState isTyping
    streamingContent,   \* page.tsx: useState streamingContent
    lastVerification,   \* page.tsx: useState lastVerification
    abortRef,           \* page.tsx: useRef abortRef
    stream,             \* the handleSubmit call awaiting streamChat, with what its closure captured
    \* ---- one streamChat call (near-ai.ts) and the transport that answers it
    sc,                 \* the call: its options, its position and its local variables
    net,                \* the response body: what has not arrived yet, what waits to be read
    keysDrawn,          \* how many keypairs generateClientKeys has drawn
    encryptions,        \* history: every message encryption, with the private key it used
    chunksOut,          \* history: the onChunk calls, in order
    afterDone,          \* history: what was appended or set after '[DONE]' was processed
    \* ---- one message encrypted for the model key, on bytes
    ec                  \* the message, the keys, the hex text and what its decryption gave

attestVars == <<atResp, atSeed, atOut>>
verifyVars == <<vfIn, vfOut>>
cacheVars == <<cachedAttestation, apiKey, attestation, apiKeyRequired, effectDue,
               inflight, fetchCount, cachedCred, lastDone, firstReturned, lastCall>>
vaultVars == <<now, uuids, vaultPassphrase, vaultModalOpen, vaultError, conversations,
               activeConvoId, store, calls, load, swept>>
streamVars == <<isTyping, streamingContent, lastVerification, abortRef, stream>>
chatVars == <<sc, net, keysDrawn, encryptions, chunksOut, afterDone>>
vars == <<attestVars, verifyVars, cacheVars, vaultVars, streamVars, chatVars, ec>>

\* what the actions of one part leave alone
notAttestVars == <<verifyVars, cacheVars, vaultVars, streamVars, chatVars, ec>>
notVerifyVars == <<attestVars, cacheVars, vaultVars, streamVars, chatVars, ec>>
notCacheVars == <<attestVars, verifyVars, vaultVars, streamVars, chatVars, ec>>
notSweepVars == <<attestVars, verifyVars, cacheVars, streamVars, chatVars, ec>>
\* the vault's actions other than the sweep, and the page's, leave its history alone
notVaultVars == <<notSweepVars, swept>>
notPageVars == <<attestVars, verifyVars, cacheVars, chatVars, swept, ec>>
notChatVars == <<attestVars, verifyVars, cacheVars, vaultVars, streamVars, ec>>
notEciesVars == <<attestVars, verifyVars, cacheVars, vaultVars, streamVars, chatVars>>

----------------------------------------------------------------------------
(* Strings *)

\* the sequence of n copies of the character c
Rep(c, n) == [i \in 1..n |-> c]

HexDigits == <<"0", "1", "2", "3", "4", "5", "6", "7", "8", "9", "a", "b", "c", "d", "e", "f">>

\* String.prototype.toLowerCase, on the letters the model's strings hold
lowerChar(c) ==
    CASE c = "A" -> "a" [] c = "B" -> "b" [] c = "C" -> "c" [] c = "D" -> "d"
      [] c = "E" -> "e" [] c = "F" -> "f" [] c = "X" -> "x" [] OTHER -> c

toLowerCase(s) == [i \in 1..Len(s) |-> lowerChar(s[i])]

\* crypto.ts isHex: /^[0-9a-fA-F]+$/
HexChars == {"0", "1", "2", "3", "4", "5", "6", "7", "8", "9",
             "a", "b", "c", "d", "e", "f", "A", "B", "C", "D", "E", "F"}

isHex(value) == Len(value) > 0 /\ \A i \in 1..Len(value) : value[i] \in HexChars

\* String.prototype.startsWith("0x")
startsWith0x(s) == Len(s) >= 2 /\ s[1] = "0" /\ s[2] = "x"

\* s.replace(/^0x/, "")
strip0x(s) == IF startsWith0x(s) THEN SubSeq(s, 3, Len(s)) ELSE s

\* crypto.ts bytesToHex: two lowercase hex digits per byte
bytesToHex(bytes) ==
    [i \in 1..(2 * Len(bytes)) |->
        LET b == bytes[(i + 1) \div 2]
        IN  IF i % 2 = 1 THEN HexDigits[(b \div 16) + 1] ELSE HexDigits[(b % 16) + 1]]

\* the random source: n bytes, distinct for distinct draws (0xa0.., 0xb1.., 0xc2.., ...)
NonceBytes == 32
getRandomValues(n, seed) == [i \in 1..n |-> (160 + 17 * seed) % 256]

\* the nonce of the check that drew `seed`
nonceOf(seed) == bytesToHex(getRandomValues(NonceBytes, seed))

----------------------------------------------------------------------------
(* Parsed JSON: the sum type string | number | boolean | null | array | object,
   and undefined for what a lookup does not find *)

JStr(s) == [t |-> "string", s |-> s]
JNum(n) == [t |-> "number", n |-> n]
JBool(b) == [t |-> "boolean", b |-> b]
JNull == [t |-> "null"]
JUndef == [t |-> "undefined"]
JArr(items) == [t |-> "array", items |-> items]
JObj(keys, vals) == [t |-> "object", keys |-> keys, vals |-> vals]

\* JavaScript truthiness
truthy(node) ==
    CASE node.t = "string" -> Len(node.s) > 0
      [] node.t = "number" -> node.n # 0
      [] node.t = "boolean" -> node.b
      [] node.t \in {"null", "undefined"} -> FALSE
      [] OTHER -> TRUE

\* obj[key] on a parsed value: undefined unless an object holds the key
getProp(node, key) ==
    IF node.t = "object" /\ \E i \in 1..Len(node.keys) : node.keys[i] = key
    THEN node.vals[CHOOSE i \in 1..Len(node.keys) : node.keys[i] = key]
    ELSE JUndef

\* value?.[0] on a parsed value: the first item of an array
firstItem(node) ==
    IF node.t = "array" /\ Len(node.items) > 0 THEN node.items[1] ELSE JUndef

RECURSIVE decimal(_)
decimal(n) ==
    IF n < 10 THEN <<HexDigits[n + 1]>> ELSE decimal(n \div 10) \o <<HexDigits[(n % 10) + 1]>>

\* String(value), for the values the model gives a signing key
toStr(node) ==
    CASE node.t = "string" -> node.s
      [] node.t = "number" -> decimal(node.n)
      [] node.t = "boolean" -> IF node.b THEN <<"t", "r", "u", "e">> ELSE <<"f", "a", "l", "s", "e">>
      [] OTHER -> <<"[", "o", "b", "j", "e", "c", "t", " ", "O", "b", "j", "e", "c", "t", "]">>

\* crypto.ts findNonceRecursive. A parsed response body is a tree, so the
\* `seen` set never answers: every object is met once.
RECURSIVE findNonceLoose(_, _)
findNonceLoose(node, nonce) ==
    IF node.t = "string" THEN Len(node.s) = Len(nonce) /\ isHex(node.s)
    ELSE IF node.t = "array"
         THEN \E i \in 1..Len(node.items) : findNonceLoose(node.items[i], nonce)
    ELSE IF node.t = "object"
         THEN \E i \in 1..Len(node.vals) : findNonceLoose(node.vals[i], nonce)
    ELSE FALSE

RECURSIVE findNonceRecursive(_, _)
findNonceRecursive(node, nonce) ==
    IF node.t = "string" THEN toLowerCase(node.s) = toLowerCase(nonce)
    ELSE IF node.t = "array"
         THEN \E i \in 1..Len(node.items) : findNonceRecursive(node.items[i], nonce)
    ELSE IF node.t = "object"
         THEN \E i \in 1..Len(node.vals) : findNonceRecursive(node.vals[i], nonce)
    ELSE FALSE

----------------------------------------------------------------------------
(* The attestation check, crypto.ts fetchModelPublicKey *)

\* Response.ok
resOk(resp) == resp.status >= 200 /\ resp.status <= 299

\* keyLength: the length without an "0x" prefix
keyLengthWithPrefix(signingPublicKey) == Len(signingPublicKey)

keyLength(signingPublicKey) ==
    IF startsWith0x(signingPublicKey) THEN Len(signingPublicKey) - 2 ELSE Len(signingPublicKey)

keyLooksValid(signingPublicKey) ==
    isHex(strip0x(signingPublicKey)) /\ keyLength(signingPublicKey) \in {128, 130}

verificationLevel(valid, nonceMatched) ==
    IF valid THEN (IF nonceMatched THEN "nonce" ELSE "format") ELSE "none"

keyFingerprint(cleanKey) ==
    IF Len(cleanKey) >= 16
    THEN SubSeq(cleanKey, 1, 8) \o <<"...">> \o SubSeq(cleanKey, Len(cleanKey) - 7, Len(cleanKey))
    ELSE cleanKey

noteOf(level) ==
    CASE level = "nonce" -> "Model key format and nonce freshness checks passed."
      [] level = "format" -> "Model key format check passed, but nonce echo was not found."
      [] OTHER -> "Attestation payload did not include a valid model key format."

Thrown(message) == [kind |-> "throw", message |-> message]

\* crypto.ts line 77: if (!modelAttestation?.signing_public_key) throw
hasSigningKeyUnchecked(data) == TRUE

hasSigningKey(data) ==
    truthy(getProp(firstItem(getProp(data, "model_attestations")), "signing_public_key"))

\* data.model_attestations?.[0]?.signing_public_key; a null body has no properties to read
signingKeyField(data) == getProp(firstItem(getProp(data, "model_attestations")), "signing_public_key")

\* The outcome of one check: the report it returns, or the error it throws.
\* checkedAt, environment, model and signingAlgo are display fields no decision reads.
fetchModelPublicKey(resp, seed) ==
    LET nonce == nonceOf(seed)
    IN  IF ~resOk(resp) THEN Thrown("Attestation request failed")
        ELSE IF ~resp.json THEN Thrown("res.json() rejected")
        ELSE IF resp.data.t \in {"null", "undefined"} THEN Thrown("TypeError")
        ELSE IF ~hasSigningKey(resp.data)
             THEN Thrown("No model public key in attestation response")
        ELSE LET signingPublicKey == toStr(signingKeyField(resp.data))
                 valid == keyLooksValid(signingPublicKey)
                 nonceMatched == findNonceRecursive(resp.data, nonce)
                 level == verificationLevel(valid, nonceMatched)
             IN  [kind |-> "report",
                  signingPublicKey |-> signingPublicKey,
                  keyFingerprint |-> keyFingerprint(strip0x(signingPublicKey)),
                  verified |-> (level = "nonce"),
                  verificationLevel |-> level,
                  nonceMatched |-> nonceMatched,
                  nonce |-> nonce,
                  note |-> noteOf(level)]

----------------------------------------------------------------------------
(* Attestation responses the transport may deliver.  Each carries, beside what
   the code reads (status, json, data), what it was built as: whether its key
   has the expected encoding and which nonce it echoes. *)

MaxSeed == 1
Seeds == 0..MaxSeed

\* signing_public_key values: <<value, has the expected point encoding>>
KeyValues ==
    { <<JStr(Rep("a", 128)), TRUE>>,
      <<JStr(<<"0", "4">> \o Rep("b", 128)), TRUE>>,
      <<JStr(<<"0", "x">> \o Rep("a", 128)), TRUE>>,
      <<JStr(<<"0", "x", "0", "4">> \o Rep("b", 128)), TRUE>>,
      <<JStr(Rep("A", 64) \o Rep("9", 64)), TRUE>>,
      <<JStr(<<"0", "x">> \o Rep("a", 126)), FALSE>>,
      <<JStr(Rep("a", 132)), FALSE>>,
      <<JStr(Rep("a", 129)), FALSE>>,
      <<JStr(Rep("a", 127) \o <<"g">>), FALSE>>,
      <<JStr(<<"0", "X">> \o Rep("a", 128)), FALSE>>,
      <<JStr(<<"a", "b">>), FALSE>>,
      <<JNum(12), FALSE>>,
      <<JBool(TRUE), FALSE>> }

\* signing_public_key values the code takes as missing
MissingKeyValues == {JStr(<<>>), JNum(0), JNull, JBool(FALSE)}

EchoKinds == {"own", "ownUpper", "other", "prefixed", "truncated"}

upperChar(c) ==
    CASE c = "a" -> "A" [] c = "b" -> "B" [] c = "c" -> "C" [] c = "d" -> "D"
      [] c = "e" -> "E" [] c = "f" -> "F" [] OTHER -> c

\* the string a response of kind `echo` carries, for the check that drew `seed`
echoString(echo, seed) ==
    CASE echo = "own" -> nonceOf(seed)
      [] echo = "ownUpper" -> [i \in 1..(2 * NonceBytes) |-> upperChar(nonceOf(seed)[i])]
      [] echo = "other" -> nonceOf(seed + 1)
      [] echo = "prefixed" -> <<"0", "x">> \o nonceOf(seed)
      [] OTHER -> SubSeq(nonceOf(seed), 1, 2 * NonceBytes - 1)

EchoPlaces == {"top", "attestation", "nested"}

\* a well-formed body with key value kv, echoing string e at `place`
bodyWith(kv, place, e) ==
    CASE place = "none" ->
            JObj(<<"model_attestations">>, <<JArr(<<JObj(<<"signing_public_key">>, <<kv>>)>>)>>)
      [] place = "top" ->
            JObj(<<"request_nonce", "model_attestations">>,
                 <<JStr(e), JArr(<<JObj(<<"signing_public_key">>, <<kv>>)>>)>>)
      [] place = "attestation" ->
            JObj(<<"model_attestations">>,
                 <<JArr(<<JObj(<<"signing_public_key", "nonce">>, <<kv, JStr(e)>>)>>)>>)
      [] OTHER ->
            JObj(<<"model_attestations", "gateway">>,
                 <<JArr(<<JObj(<<"signing_public_key">>, <<kv>>)>>),
                   JObj(<<"quotes">>, <<JArr(<<JNum(1), JNull, JObj(<<"report_data">>, <<JStr(e)>>)>>)>>)>>)

Response(status, json, data, keyValid, echo) ==
    [status |-> status, json |-> json, data |-> data, keyValid |-> keyValid, echo |-> echo]

\* responses that carry a signing key
KeyedResponses(seed) ==
    { Response(200, TRUE, bodyWith(k[1], "none", <<>>), k[2], "none") : k \in KeyValues }
    \cup { Response(200, TRUE, bodyWith(k[1], pe[1], echoString(pe[2], seed)), k[2], pe[2]) :
             k \in KeyValues, pe \in EchoPlaces \X EchoKinds }

\* 2xx responses with a malformed body or no signing key (they may still echo the nonce)
InvalidResponses(seed) ==
    { Response(200, FALSE, JUndef, FALSE, "none"),
      Response(200, TRUE, JNull, FALSE, "none"),
      Response(200, TRUE, JObj(<<>>, <<>>), FALSE, "none"),
      Response(204, TRUE, JObj(<<"model_attestations">>, <<JArr(<<>>)>>), FALSE, "none"),
      Response(200, TRUE, JObj(<<"model_attestations">>, <<JNull>>), FALSE, "none"),
      Response(200, TRUE, JObj(<<"nonce", "model_attestations">>,
                               <<JStr(nonceOf(seed)), JArr(<<JObj(<<>>, <<>>)>>)>>), FALSE, "own") }
    \cup { Response(200, TRUE, bodyWith(kv, "top", nonceOf(seed)), FALSE, "own") :
             kv \in MissingKeyValues }

\* non-2xx responses, with whatever body
FailedResponses(seed) ==
    { Response(401, TRUE, JObj(<<"error">>, <<JStr(<<"x">>)>>), FALSE, "none"),
      Response(500, FALSE, JUndef, FALSE, "none"),
      Response(404, TRUE, bodyWith(JStr(Rep("a", 128)), "top", nonceOf(seed)), TRUE, "own"),
      Response(302, TRUE, bodyWith(JStr(Rep("a", 128)), "none", <<>>), TRUE, "none") }

Responses(seed) == KeyedResponses(seed) \cup InvalidResponses(seed) \cup FailedResponses(seed)

----------------------------------------------------------------------------
(* The attestation check as a function: one check per behaviour *)

AtPending == [kind |-> "pending"]
NoReport == [kind |-> "null"]
NoCall == [kind |-> "null"]

AttestIdle ==
    /\ atSeed = 0
    /\ atResp = Response(200, FALSE, JUndef, FALSE, "none")
    /\ atOut = AtPending

CacheIdle ==
    /\ cachedAttestation = NoReport
    /\ apiKey = ""
    /\ attestation = NoReport
    /\ apiKeyRequired = FALSE
    /\ effectDue = TRUE
    /\ inflight = {}
    /\ fetchCount = 0
    /\ cachedCred = ""
    /\ lastDone = NoCall
    /\ firstReturned = NoReport
    /\ lastCall = NoReport

AttestInit ==
    /\ atSeed \in Seeds
    /\ atResp \in Responses(atSeed)
    /\ atOut = AtPending

\* the check answers the response it was given
CheckAttestation ==
    /\ atOut = AtPending
    /\ atOut' = fetchModelPublicKey(atResp, atSeed)
    /\ UNCHANGED <<atResp, atSeed, notAttestVars>>

AttestNext == CheckAttestation

\* the echoes that are the check's own nonce, whatever the letter case
OwnEchoes == {"own", "ownUpper"}

\* C5: every report's verificationLevel is 'nonce' iff the key format is valid and
\* the nonce was matched, 'format' iff the format is valid and the nonce was not
\* matched, 'none' otherwise; verified is true iff the level is 'nonce'.
C5_LevelClassification ==
    atOut.kind = "report" =>
        LET valid == atResp.keyValid
            matched == atResp.echo \in OwnEchoes
        IN  /\ atOut.verificationLevel = "nonce" <=> (valid /\ matched)
            /\ atOut.verificationLevel = "format" <=> (valid /\ ~matched)
            /\ atOut.verificationLevel = "none" <=> ~valid
            /\ atOut.verified <=> (atOut.verificationLevel = "nonce")

C5_Witness ==
    /\ atOut.kind = "report"
    /\ startsWith0x(atOut.signingPublicKey)
    /\ Len(atOut.signingPublicKey) = 132
    /\ atOut.verificationLevel = "nonce"
    /\ atOut.verified

\* C6: a check is classified 'nonce' only if the body holds, at some depth, a
\* string equal (ignoring case) to the nonce of that same check; a response with
\* a valid key that echoes another check's nonce is classified 'format'.
C6_NonceOnlyForOwnNonce ==
    atOut.kind = "report" =>
        /\ atOut.verificationLevel = "nonce" => atResp.echo \in OwnEchoes
        /\ (atResp.keyValid /\ atResp.echo = "other") => atOut.verificationLevel = "format"

C6_Witness ==
    /\ atOut.kind = "report"
    /\ atResp.keyValid
    /\ atResp.echo = "other"
    /\ getProp(atResp.data, "gateway").t = "object"
    /\ atOut.verificationLevel = "format"

\* C29: in every report, nonceMatched = true implies verificationLevel =
\* 'nonce'; a report at level 'none' has nonceMatched = false.
C29_NonceCountsOnlyWithValidKey ==
    atOut.kind = "report" =>
        /\ atOut.nonceMatched => atOut.verificationLevel = "nonce"
        /\ atOut.verificationLevel = "none" => ~atOut.nonceMatched

----------------------------------------------------------------------------
(* The response integrity verifier: crypto.ts sha256Hex and fetchChatSignature,
   near-ai.ts buildVerification *)

\* crypto.ts sha256Hex: the digest's 32 bytes as 64 lowercase hex digits. The texts
\* hashed are named by small numbers, and distinct texts get distinct digests.
DigestBytes == 32
sha256Hex(text) == bytesToHex([i \in 1..DigestBytes |-> (171 + 29 * text) % 256])

\* fetch() rejects when the request fails without an answer (a network error);
\* such an outcome is written as an answer of status 0
fetchRejected(resp) == resp.status = 0

\* crypto.ts fetchChatSignature: null on a non-2xx answer and on a body without
\* signature or text; fetch() rejects on a network error and res.json() rejects
\* on a malformed body, and nothing catches either
fetchChatSignature(resp) ==
    IF fetchRejected(resp) THEN [t |-> "throw", kind |-> "throw", message |-> "fetch() rejected"]
    ELSE IF ~resOk(resp) THEN JNull
    ELSE IF ~resp.json THEN [t |-> "throw", kind |-> "throw", message |-> "res.json() rejected"]
    ELSE IF ~truthy(getProp(resp.data, "signature")) \/ ~truthy(getProp(resp.data, "text")) THEN JNull
    ELSE [t |-> "signature",
          text |-> getProp(resp.data, "text"),
          signature |-> getProp(resp.data, "signature"),
          signingAddress |-> getProp(resp.data, "signing_address"),
          signingAlgo |-> getProp(resp.data, "signing_algo")]

\* near-ai.ts line 195: `${requestHash}:${responseHash}`
expectedTextSwapped(requestHash, responseHash) == responseHash \o <<":">> \o requestHash

expectedText(requestHash, responseHash) == requestHash \o <<":">> \o responseHash

\* a === b for a parsed value a and a string b
strictEquals(node, str) == node.t = "string" /\ node.s = str

\* near-ai.ts buildVerification, given what fetchChatSignature got
buildVerification(chatId, requestHash, responseHash, resp) ==
    LET signature == fetchChatSignature(resp)
    IN  IF signature.t = "throw" THEN signature
        ELSE LET expected == expectedText(requestHash, responseHash)
                 textMatches == signature.t = "signature" /\ strictEquals(signature.text, expected)
             IN  [kind |-> "result",
                  chatId |-> chatId,
                  requestHash |-> requestHash,
                  responseHash |-> responseHash,
                  signatureFetched |-> signature.t # "null",
                  signatureTextMatches |-> textMatches,
                  signature |-> signature]

\* Signature texts the endpoint may return for hashes rq and rs
MaxText == 2
TextKinds == {"exact", "swapped", "upper", "noColon", "padded", "requestOnly", "numberText"}

signatureText(kind, rq, rs) ==
    CASE kind = "exact" -> JStr(rq \o <<":">> \o rs)
      [] kind = "swapped" -> JStr(rs \o <<":">> \o rq)
      [] kind = "upper" -> JStr([i \in 1..(4 * DigestBytes + 1) |-> upperChar((rq \o <<":">> \o rs)[i])])
      [] kind = "noColon" -> JStr(rq \o rs)
      [] kind = "padded" -> JStr(rq \o <<":">> \o rs \o <<" ">>)
      [] kind = "requestOnly" -> JStr(rq)
      [] OTHER -> JNum(7)

signatureBody(text, sig) ==
    JObj(<<"text", "signature", "signing_address", "signing_algo">>,
         <<text, sig, JStr(<<"0", "x", "a">>), JStr(<<"e", "c", "d", "s", "a">>)>>)

\* the signature endpoint's answers, each with the kind of its text (a variant that
\* comes out as the exact text, as swapping equal hashes does, is of kind "exact")
SignatureResponses(rq, rs) ==
    LET sig == JStr(<<"0", "x", "5", "1">>)
    IN  { [status |-> 200, json |-> TRUE, data |-> signatureBody(signatureText(k, rq, rs), sig),
           textKind |-> IF signatureText(k, rq, rs) = signatureText("exact", rq, rs) THEN "exact" ELSE k] :
            k \in TextKinds \ {"numberText"} }
        \cup { [status |-> 200, json |-> TRUE, data |-> signatureBody(signatureText("numberText", rq, rs), sig),
                 textKind |-> "numberText"] }
        \cup { [status |-> 200, json |-> TRUE, data |-> signatureBody(signatureText("exact", rq, rs), JStr(<<>>)),
                 textKind |-> "exact"],
               [status |-> 200, json |-> TRUE,
                 data |-> JObj(<<"text">>, <<signatureText("exact", rq, rs)>>), textKind |-> "exact"],
               [status |-> 200, json |-> TRUE, data |-> signatureBody(JStr(<<>>), sig), textKind |-> "none"],
               [status |-> 200, json |-> TRUE, data |-> JNull, textKind |-> "none"],
               [status |-> 200, json |-> FALSE, data |-> JUndef, textKind |-> "none"],
               [status |-> 404, json |-> TRUE, data |-> signatureBody(signatureText("exact", rq, rs), sig),
                 textKind |-> "exact"],
               [status |-> 500, json |-> FALSE, data |-> JUndef, textKind |-> "none"],
               [status |-> 0, json |-> FALSE, data |-> JUndef, textKind |-> "none"] }

VerifyIdle ==
    /\ vfIn = [chatId |-> "chat-0", request |-> 0, response |-> 0,
               resp |-> [status |-> 500, json |-> FALSE, data |-> JUndef, textKind |-> "none"]]
    /\ vfOut = AtPending

VerifyInit ==
    /\ \E rq \in 0..MaxText, rs \in 0..MaxText :
          \E resp \in SignatureResponses(sha256Hex(rq), sha256Hex(rs)) :
             vfIn = [chatId |-> "chat-1", request |-> rq, response |-> rs, resp |-> resp]
    /\ vfOut = AtPending

\* streamChat lines 147-153: the hashes of the request and of the raw response,
\* then buildVerification
BuildVerification ==
    /\ vfOut = AtPending
    /\ vfOut' = buildVerification(vfIn.chatId, sha256Hex(vfIn.request), sha256Hex(vfIn.response), vfIn.resp)
    /\ UNCHANGED <<vfIn, notVerifyVars>>

\* C10: in every ChatVerificationResult, signatureTextMatches is true iff a signature
\* record was fetched and its text is exactly requestHash + ':' + responseHash; so
\* signatureTextMatches implies signatureFetched, and any other text gives false.
C10_TextMatchesIffExact ==
    vfOut.kind = "result" =>
        /\ vfOut.signatureTextMatches <=> (vfOut.signatureFetched /\ vfIn.resp.textKind = "exact")
        /\ vfOut.signatureTextMatches => vfOut.signatureFetched
        /\ vfOut.signatureFetched => (resOk(vfIn.resp) /\ vfOut.signature.t = "signature")

C10_Witness ==
    /\ vfOut.kind = "result"
    /\ vfIn.request # vfIn.response
    /\ vfOut.signatureFetched
    /\ vfOut.signatureTextMatches
    /\ vfOut.signature.text = JStr(vfOut.requestHash \o <<":">> \o vfOut.responseHash)

\* the answer carries a record fetchChatSignature can return
usableRecord(resp) ==
    /\ resOk(resp) /\ resp.json
    /\ truthy(getProp(resp.data, "signature")) /\ truthy(getProp(resp.data, "text"))

\* C11: when the signature request fails in transport (network error, non-2xx
\* status) or brings no usable record, the verification step still yields a
\* result, with signatureFetched = false, and streamChat does not reject.
C11_SignatureFailureNonFatal ==
    (vfOut # AtPending /\ ~usableRecord(vfIn.resp))
        => (vfOut.kind = "result" /\ ~vfOut.signatureFetched)

----------------------------------------------------------------------------
(* The process-wide attestation cache (near-ai.ts) and the page's credential
   state (page.tsx): handleSaveApiKey, the [apiKey] effect, streamChat's
   getAttestation call, and the completion of every attestation request. *)

MaxFetches == 3
Credentials == {"", "k1"}

\* what the transport may answer a request of the cache model: a valid key with and
\* without the nonce, an invalid key, no key, a malformed body, a refusal
CacheResponses(seed) ==
    LET goodKey == JStr(<<"0", "4">> \o Rep("b", 128))
    IN  << Response(200, TRUE, bodyWith(goodKey, "attestation", nonceOf(seed)), TRUE, "own"),
           Response(200, TRUE, bodyWith(goodKey, "none", <<>>), TRUE, "none"),
           Response(200, TRUE, bodyWith(JStr(<<"a", "b">>), "none", <<>>), FALSE, "none"),
           Response(200, TRUE, JObj(<<"model_attestations">>, <<JArr(<<JObj(<<>>, <<>>)>>)>>), FALSE, "none"),
           Response(200, FALSE, JUndef, FALSE, "none"),
           Response(401, TRUE, JObj(<<"error">>, <<JStr(<<"x">>)>>), FALSE, "none") >>

\* the responses and the outcome of the check on each, tabulated per request
ResponseTable == [seed \in 0..MaxFetches |-> CacheResponses(seed)]
OutcomeTable ==
    [seed \in 0..MaxFetches |->
        [i \in 1..Len(ResponseTable[seed]) |-> fetchModelPublicKey(ResponseTable[seed][i], seed)]]

\* near-ai.ts clearAttestationCache
clearAttestationCache == NoReport

\* near-ai.ts getAttestation line 16: a filled cache answers the call
cacheHit(cache) == cache # NoReport

\* near-ai.ts getAttestation line 17: the awaited report is assigned to the cache;
\* an await that throws assigns nothing
cacheAfterKeepingFailure(cache, outcome) ==
    IF outcome.kind = "report" THEN outcome
    ELSE [kind |-> "report", signingPublicKey |-> <<>>, keyFingerprint |-> <<>>,
          verified |-> FALSE, verificationLevel |-> "none", nonceMatched |-> FALSE,
          nonce |-> <<>>, note |-> noteOf("none")]

cacheAfter(cache, outcome) == IF outcome.kind = "report" THEN outcome ELSE cache

\* a pending call: the credential it sends, the draw of its nonce, who awaits it, whether
\* the awaiting effect run was cancelled, and (history) whether the cache was cleared since
Call(id, cred, caller) ==
    [id |-> id, cred |-> cred, seed |-> id, caller |-> caller, cancelled |-> FALSE, stale |-> FALSE]

\* the pending calls after the cache was cleared
outdated(pending) == {[c EXCEPT !.stale = TRUE] : c \in pending}

\* page.tsx handleSaveApiKey; React schedules the [apiKey] effect when the key changed
HandleSaveApiKey(key) ==
    /\ apiKey' = key
    /\ cachedAttestation' = clearAttestationCache
    /\ attestation' = NoReport
    /\ effectDue' = (effectDue \/ key # apiKey)
    /\ cachedCred' = ""
    /\ firstReturned' = NoReport
    /\ lastCall' = NoReport
    /\ inflight' = outdated(inflight)
    /\ UNCHANGED <<apiKeyRequired, fetchCount, lastDone, notCacheVars>>

\* page.tsx [apiKey] effect: the previous run's cleanup cancels it, then run()
\* clears the cache and calls getAttestation, which finds it empty and issues a request
RunApiKeyEffect ==
    /\ effectDue
    /\ fetchCount < MaxFetches
    /\ effectDue' = FALSE
    /\ cachedAttestation' = clearAttestationCache
    /\ inflight' = { IF c.caller = "effect" THEN [c EXCEPT !.cancelled = TRUE] ELSE c :
                        c \in outdated(inflight) }
                      \cup {Call(fetchCount, apiKey, "effect")}
    /\ fetchCount' = fetchCount + 1
    /\ cachedCred' = ""
    /\ firstReturned' = NoReport
    /\ lastCall' = NoReport
    /\ UNCHANGED <<apiKey, attestation, apiKeyRequired, lastDone, notCacheVars>>

\* page.tsx handleSubmit line 392: useE2EE
useE2EE == attestation # NoReport /\ attestation.verificationLevel # "none"

\* near-ai.ts streamChat lines 51-52 reached from handleSubmit with useE2EE:
\* getAttestation(apiKey) answers from a filled cache, or issues a request
StreamChatGetAttestation ==
    /\ useE2EE
    /\ IF cacheHit(cachedAttestation)
       THEN /\ lastCall' = cachedAttestation
            /\ UNCHANGED <<inflight, fetchCount>>
       ELSE /\ fetchCount < MaxFetches
            /\ inflight' = inflight \cup {Call(fetchCount, apiKey, "stream")}
            /\ fetchCount' = fetchCount + 1
            /\ UNCHANGED lastCall
    /\ UNCHANGED <<cachedAttestation, apiKey, attestation, apiKeyRequired, effectDue,
                   cachedCred, lastDone, firstReturned, notCacheVars>>

\* The response to call c arrives: fetchModelPublicKey returns or throws, getAttestation
\* assigns the cache and returns it, and the caller's continuation runs. The effect's
\* continuation (page.tsx 246-254) sets the page state unless its run was cancelled;
\* streamChat's goes on to encrypt and touches none of this state.
CompleteFetch(c, i) ==
    LET resp == ResponseTable[c.seed][i]
        outcome == OutcomeTable[c.seed][i]
    IN  /\ inflight' = inflight \ {c}
        /\ cachedAttestation' = cacheAfter(cachedAttestation, outcome)
        /\ cachedCred' = IF outcome.kind = "report" THEN c.cred ELSE cachedCred
        /\ lastDone' = [kind |-> "done", id |-> c.id, status |-> resp.status,
                        wellFormed |-> resp.json /\ resp.data.t = "object",
                        hasKey |-> resp.json /\ truthy(signingKeyField(resp.data)),
                        outcome |-> outcome, caller |-> c.caller, cancelled |-> c.cancelled]
        /\ firstReturned' = IF outcome.kind = "report" /\ ~c.stale /\ firstReturned = NoReport
                            THEN outcome ELSE firstReturned
        /\ IF c.caller = "effect" /\ ~c.cancelled
           THEN /\ attestation' = IF outcome.kind = "report" THEN outcome ELSE NoReport
                /\ apiKeyRequired' = (outcome.kind # "report")
           ELSE UNCHANGED <<attestation, apiKeyRequired>>
        /\ UNCHANGED <<apiKey, effectDue, fetchCount, lastCall, notCacheVars>>

Next ==
    \/ \E key \in Credentials : HandleSaveApiKey(key)
    \/ RunApiKeyEffect
    \/ StreamChatGetAttestation
    \/ \E c \in inflight : \E i \in 1..Len(ResponseTable[c.seed]) : CompleteFetch(c, i)


----------------------------------------------------------------------------
(* Claims about the cache *)

Is2xx(status) == status >= 200 /\ status <= 299

\* C1: once the effect of the latest credential change has run and every check in
\* flight has completed, a report in the cache was fetched under the current
\* credential, whatever the order in which the old and new requests completed.
C1_CacheUnderCurrentCredential ==
    (~effectDue /\ inflight = {} /\ cachedAttestation # NoReport) => cachedCred = apiKey

\* C7 as claimed: a 2xx response with a malformed body or without a signing key
\* yields verificationLevel 'none' and no thrown exception.
C7_InvalidBodyIsLevelNone ==
    (lastDone.kind = "done" /\ Is2xx(lastDone.status) /\ ~(lastDone.wellFormed /\ lastDone.hasKey)) =>
        (lastDone.outcome.kind = "report" /\ lastDone.outcome.verificationLevel = "none")

\* C7 as the code has it: such a response makes the check throw; it returns no
\* report (none at level 'none' either) and leaves the cache as it was, and the
\* effect's catch records "no report": attestation null, apiKeyRequired set.
C7_InvalidBodyThrows ==
    [][ (lastDone' # lastDone /\ Is2xx(lastDone'.status)
            /\ ~(lastDone'.wellFormed /\ lastDone'.hasKey)) =>
          /\ lastDone'.outcome.kind = "throw"
          /\ cachedAttestation' = cachedAttestation
          /\ (lastDone'.caller = "effect" /\ ~lastDone'.cancelled) =>
                (attestation' = NoReport /\ apiKeyRequired') ]_vars

C7_Witness ==
    /\ lastDone.kind = "done"
    /\ lastDone.status = 200
    /\ lastDone.wellFormed
    /\ ~lastDone.hasKey
    /\ lastDone.caller = "effect"
    /\ ~lastDone.cancelled
    /\ lastDone.outcome.kind = "throw"
    /\ attestation = NoReport
    /\ apiKeyRequired

\* C8: a non-2xx response makes the check fail with no report, partial or not, and
\* the cache is left as it was: it never holds a failure, so a call on the empty
\* cache issues a request.
C8_FailureLeavesCache ==
    /\ [](cachedAttestation # NoReport => cachedAttestation.kind = "report")
    /\ [][ (lastDone' # lastDone /\ ~Is2xx(lastDone'.status)) =>
             /\ lastDone'.outcome.kind = "throw"
             /\ cachedAttestation' = cachedAttestation
             /\ (cachedAttestation = NoReport => ~cacheHit(cachedAttestation')) ]_vars

C8_Witness ==
    /\ lastDone.kind = "done"
    /\ lastDone.status = 401
    /\ lastDone.outcome.kind = "throw"
    /\ cachedAttestation = NoReport
    /\ ~cacheHit(cachedAttestation)

\* C9: after a call (issued since the last clear) has succeeded, every later call
\* returns the identical report, until clearAttestationCache is called.
C9_LaterCallsSameReport ==
    (firstReturned # NoReport /\ lastCall # NoReport) => lastCall = firstReturned

\* C27: the report that streamChat obtains from getAttestation, from the cache
\* or from a request of its own, has verificationLevel 'format' or 'nonce', and
\* when it comes from the cache it is the report in the page's attestation
\* state, on which handleSubmit based useE2EE = true.
C27_EncryptsUnderDecisionReport ==
    [][ /\ (lastCall' # lastCall /\ lastCall' # NoReport) =>
              /\ lastCall' = attestation
              /\ lastCall'.verificationLevel \in {"format", "nonce"}
        /\ (lastDone' # lastDone /\ lastDone'.caller = "stream"
                /\ lastDone'.outcome.kind = "report") =>
              lastDone'.outcome.verificationLevel \in {"format", "nonce"} ]_vars

----------------------------------------------------------------------------
(* The encrypted vault: conversations, key derivation, records *)

\* JavaScript null in a numeric field (retentionHours, expiresAt)
null == 0 - 1

\* the truthiness test the code applies to those fields: neither null nor 0
isSet(x) == x # null /\ x # 0

HourMs == 60 * 60 * 1000

\* page.tsx RETENTION_OPTIONS
RETENTION_OPTIONS == {null, 1, 24, 24 * 7}

\* the options the user picks here: no retention, and the shortest one
RetentionChoices == {hours \in RETENTION_OPTIONS : hours = null \/ hours = 1}

\* the conversation ids crypto.randomUUID gives out, in the order it gives them
MaxConvos == 2
randomUUID(n) == "c" \o ToString(n)
ConvoIds == {randomUUID(n) : n \in 1..MaxConvos}

\* the ids of the conversations an earlier session left in the store
StoredIds == {"s1", "s2"}

\* the keys of the object store, in key order
StoreKeys == [n \in 1..MaxConvos |-> randomUUID(n)] \o <<"s1", "s2">>

\* page.tsx createEmptyConvo
createEmptyConvo(id, createdAt, retentionHours) ==
    [id |-> id,
     title |-> "New conversation",
     messages |-> <<>>,
     createdAt |-> createdAt,
     retentionHours |-> retentionHours,
     expiresAt |-> IF isSet(retentionHours) THEN createdAt + retentionHours * HourMs ELSE null,
     plans |-> <<>>]

Base64Alphabet ==
    <<"A", "B", "C", "D", "E", "F", "G", "H", "I", "J", "K", "L", "M",
      "N", "O", "P", "Q", "R", "S", "T", "U", "V", "W", "X", "Y", "Z",
      "a", "b", "c", "d", "e", "f", "g", "h", "i", "j", "k", "l", "m",
      "n", "o", "p", "q", "r", "s", "t", "u", "v", "w", "x", "y", "z",
      "0", "1", "2", "3", "4", "5", "6", "7", "8", "9", "+", "/">>

\* btoa over the bytes of a binary string
RECURSIVE btoa(_)
btoa(bytes) ==
    IF Len(bytes) = 0 THEN <<>>
    ELSE LET n == Len(bytes)
             b1 == bytes[1]
             b2 == IF n >= 2 THEN bytes[2] ELSE 0
             b3 == IF n >= 3 THEN bytes[3] ELSE 0
         IN <<Base64Alphabet[(b1 \div 4) + 1],
              Base64Alphabet[((b1 % 4) * 16 + (b2 \div 16)) + 1],
              IF n >= 2 THEN Base64Alphabet[((b2 % 16) * 4 + (b3 \div 64)) + 1] ELSE "=",
              IF n >= 3 THEN Base64Alphabet[(b3 % 64) + 1] ELSE "=">>
            \o (IF n > 3 THEN btoa(SubSeq(bytes, 4, n)) ELSE <<>>)

Base64Values == [c \in {Base64Alphabet[i] : i \in 1..64} |->
                    (CHOOSE i \in 1..64 : Base64Alphabet[i] = c) - 1]

base64Value(c) == IF c = "=" THEN 0 ELSE Base64Values[c]

\* atob, to the bytes of the binary string
RECURSIVE atob(_)
atob(text) ==
    IF Len(text) < 4 THEN <<>>
    ELSE LET v1 == base64Value(text[1])
             v2 == base64Value(text[2])
             v3 == base64Value(text[3])
             v4 == base64Value(text[4])
             three == <<v1 * 4 + (v2 \div 16), (v2 % 16) * 16 + (v3 \div 4), (v3 % 4) * 64 + v4>>
             kept == IF text[3] = "=" THEN 1 ELSE IF text[4] = "=" THEN 2 ELSE 3
         IN SubSeq(three, 1, kept) \o atob(SubSeq(text, 5, Len(text)))

SaltBytes == 16
IvBytes == 12
PBKDF2_ITERATIONS == 210000
MaxCalls == 2

\* the random salt and iv of the n-th encryption
saltOf(n) == getRandomValues(SaltBytes, 2 * n)
ivOf(n) == getRandomValues(IvBytes, 2 * n + 1)

\* btoa and atob of the salts and ivs drawn here, computed once; the encryptions
\* of an earlier session count as the 0-th
RandomBytes == {saltOf(n) : n \in 0..MaxCalls} \cup {ivOf(n) : n \in 0..MaxCalls}
EncodeTable == [bytes \in RandomBytes |-> btoa(bytes)]
DecodeTable == [text \in {EncodeTable[bytes] : bytes \in RandomBytes} |-> atob(text)]

\* storage.ts bytesToBase64
bytesToBase64(bytes) == IF bytes \in RandomBytes THEN EncodeTable[bytes] ELSE btoa(bytes)

\* storage.ts base64ToBytes
base64ToBytes(base64) == IF base64 \in DOMAIN DecodeTable THEN DecodeTable[base64] ELSE atob(base64)

\* a key that does not depend on the passphrase
deriveAesKeyFromSalt(passphrase, salt) ==
    [name |-> "AES-GCM", length |-> 256, passphrase |-> "", salt |-> salt,
     iterations |-> PBKDF2_ITERATIONS]

\* storage.ts deriveAesKey: the key is a function of the passphrase, the salt and
\* the iteration count, and of nothing else
deriveAesKey(passphrase, salt) ==
    [name |-> "AES-GCM", length |-> 256, passphrase |-> passphrase, salt |-> salt,
     iterations |-> PBKDF2_ITERATIONS]

\* the value of an optional property that was set to undefined (never a chat id)
undefined == "undefined"

\* JSON.stringify leaves out a property whose value is undefined: of the
\* properties here, the chatId of a message
withoutUndefined(message) ==
    IF "chatId" \in DOMAIN message /\ message.chatId = undefined
    THEN [field \in DOMAIN message \ {"chatId"} |-> message[field]]
    ELSE message

\* JSON.stringify of a conversation and its UTF-8 bytes
stringify(conversation) ==
    [json |-> [conversation EXCEPT !.messages = [i \in DOMAIN @ |-> withoutUndefined(@[i])]]]

\* JSON.parse of the decoded plaintext
parse(plaintext) == plaintext.json

\* crypto.subtle.encrypt with AES-GCM: the ciphertext opens under this key and iv only
aesGcmEncrypt(key, iv, plaintext) == [key |-> key, iv |-> iv, plaintext |-> plaintext]

\* crypto.subtle.decrypt with AES-GCM: rejects unless key and iv are those of the encryption
aesGcmDecrypt(key, iv, encrypted) ==
    IF encrypted.key = key /\ encrypted.iv = iv
    THEN [ok |-> TRUE, plaintext |-> encrypted.plaintext]
    ELSE [ok |-> FALSE]

\* storage.ts encryptConversation, as the n-th encryption
encryptConversation(conversation, passphrase, n) ==
    LET salt == saltOf(n)
        iv == ivOf(n)
        key == deriveAesKey(passphrase, salt)
        encrypted == aesGcmEncrypt(key, iv, stringify(conversation))
    IN [id |-> conversation.id,
        createdAt |-> conversation.createdAt,
        payload |-> [base64 |-> encrypted],
        iv |-> bytesToBase64(iv),
        salt |-> bytesToBase64(salt),
        v |-> 1]

\* storage.ts decryptConversation; atob throws on a field the record does not have
decryptConversation(record, passphrase) ==
    IF ~({"salt", "iv", "payload"} \subseteq DOMAIN record) THEN [ok |-> FALSE]
    ELSE LET salt == base64ToBytes(record.salt)
             iv == base64ToBytes(record.iv)
             encrypted == record.payload.base64
             key == deriveAesKey(passphrase, salt)
             opened == aesGcmDecrypt(key, iv, encrypted)
         IN IF opened.ok
            THEN [ok |-> TRUE, conversation |-> parse(opened.plaintext)]
            ELSE [ok |-> FALSE]

\* The object store holds entries, each a key and a value.  The value of an
\* encrypted record is kept as the arguments of the encryption whose result was
\* put there, and the value of a record an earlier version of the application
\* left in the store as the conversation it is; the record itself is recordOf of
\* the value.  NoRecord is what a lookup of a missing key gives.
NoRecord == [v |-> 0]
putOf(conversation, passphrase, n) ==
    [v |-> 1, conversation |-> conversation, passphrase |-> passphrase, n |-> n]
legacyOf(conversation) == [v |-> 0, conversation |-> conversation]
recordOf(value) ==
    IF value.v = 1 THEN encryptConversation(value.conversation, value.passphrase, value.n)
    ELSE value.conversation

\* an object store that appends: the old record of a key stays beside the new one
putBeside(records, key, value) == records \cup {[key |-> key, value |-> value]}

\* IDBObjectStore.put with keyPath "id": the record takes the place of the
\* record stored under its key
put(records, key, value) == {e \in records : e.key # key} \cup {[key |-> key, value |-> value]}

\* IDBObjectStore.delete(key)
delete(records, key) == {e \in records : e.key # key}

\* the value stored under a key
valueOf(records, key) ==
    IF \E e \in records : e.key = key THEN (CHOOSE e \in records : e.key = key).value ELSE NoRecord

\* a test that takes no record for a legacy conversation
neverLegacy(value) == FALSE

\* storage.ts isLegacyConversation: an object with id, createdAt and a messages array
isLegacyConversation(value) ==
    /\ "id" \in DOMAIN value
    /\ "createdAt" \in DOMAIN value
    /\ "messages" \in DOMAIN value

----------------------------------------------------------------------------
(* The vault's calls and the page's handlers *)

\* Date.now() when the page is loaded
PageLoadMs == 1000
MaxTicks == 1
Passphrases == {"p1", "p2"}

LoadIdle == [pc |-> "idle"]

\* before the first purgeExpired
NoSweep == [at |-> null, before |-> <<>>, after |-> <<>>, issued |-> <<>>]

\* a rejected getAllConversations: no conversations come with it
Rejected == [ok |-> FALSE]
StreamIdleCall == [pc |-> "idle"]

\* a saveConversation call that has not passed its first await
SaveCall(conversation, passphrase) ==
    [op |-> "save", id |-> conversation.id, conversation |-> conversation,
     passphrase |-> passphrase, pc |-> "openDB"]

\* a deleteConversation call that has not passed its await; by: who issued it
DeleteCall(id, by) == [op |-> "delete", id |-> id, pc |-> "openDB", by |-> by]

idsOf(convos) == [i \in DOMAIN convos |-> convos[i].id]
has(convos, id) == \E i \in DOMAIN convos : convos[i].id = id

\* conversations.find((c) => c.id === id) ?? conversations[0]
activeConvoOf(convos, id) ==
    IF has(convos, id)
    THEN convos[CHOOSE i \in DOMAIN convos : convos[i].id = id /\ \A j \in 1..(i - 1) : convos[j].id # id]
    ELSE convos[1]

\* a test that lets the conversation live through the millisecond of its expiry
expiredAfter(convo, at) == isSet(convo.expiresAt) /\ convo.expiresAt < at

\* convo.expiresAt && convo.expiresAt <= now
expired(convo, at) == isSet(convo.expiresAt) /\ convo.expiresAt <= at

deletesFor(ids, by) == [i \in DOMAIN ids |-> DeleteCall(ids[i], by)]

VaultIdle ==
    /\ now = PageLoadMs
    /\ uuids = 1
    /\ vaultPassphrase = ""
    /\ vaultModalOpen = FALSE
    /\ vaultError = ""
    /\ conversations = <<createEmptyConvo(randomUUID(1), PageLoadMs, 24)>>
    /\ activeConvoId = randomUUID(1)
    /\ store = {}
    /\ calls = <<>>
    /\ load = LoadIdle
    /\ swept = NoSweep

StreamIdle ==
    /\ isTyping = FALSE
    /\ streamingContent = ""
    /\ lastVerification = NoReport
    /\ abortRef = FALSE
    /\ stream = StreamIdleCall

\* page.tsx persistConversation, with the passphrase its closure holds
persistConversation(convo, passphrase) ==
    IF passphrase # "" THEN <<SaveCall(convo, passphrase)>> ELSE <<>>

\* the conversations of a list, the domain of an updater
each(convos) == {convos[i] : i \in DOMAIN convos}

\* page.tsx updateConversation, with the activeConvoId and the passphrase its
\* closure holds: the conversations after the update and the save it issues
updateConversation(prev, activeId, passphrase, updater) ==
    LET updated == [i \in DOMAIN prev |-> IF prev[i].id = activeId THEN updater[prev[i]] ELSE prev[i]]
    IN [conversations |-> updated,
        saves |-> IF has(updated, activeId)
                  THEN persistConversation(activeConvoOf(updated, activeId), passphrase)
                  ELSE <<>>]

\* an updater that leaves activeConvoId as it is
purgeKeepingActive(prev, currentId, at, freshId) ==
    LET filtered == SelectSeq(prev, LAMBDA c : ~expired(c, at))
        expiredIds == idsOf(SelectSeq(prev, LAMBDA c : expired(c, at)))
    IN [expiredIds |-> expiredIds,
        fresh |-> Len(expiredIds) > 0 /\ Len(filtered) = 0,
        conversations |-> IF Len(expiredIds) = 0 \/ Len(filtered) > 0 THEN filtered
                          ELSE <<createEmptyConvo(freshId, at, 24)>>,
        activeConvoId |-> currentId]

\* purgeExpired's state updater (page.tsx 306-321) on the list prev
purge(prev, currentId, at, freshId) ==
    LET filtered == SelectSeq(prev, LAMBDA c : ~expired(c, at))
        expiredIds == idsOf(SelectSeq(prev, LAMBDA c : expired(c, at)))
        next == IF Len(filtered) > 0 THEN filtered ELSE <<createEmptyConvo(freshId, at, 24)>>
    IN [expiredIds |-> expiredIds,
        fresh |-> Len(expiredIds) > 0 /\ Len(filtered) = 0,
        conversations |-> IF Len(expiredIds) = 0 THEN prev ELSE next,
        activeConvoId |-> IF Len(expiredIds) = 0 \/ has(next, currentId) THEN currentId ELSE next[1].id]

\* page.tsx purgeExpired. The expired ids are collected inside the state updater:
\* the deletes are issued for them when the runtime runs the updater inside
\* setConversations, and for none when it defers the updater to the next render.
purgeExpired ==
    LET p == purge(conversations, activeConvoId, now, randomUUID(uuids + 1))
    IN /\ p.fresh => uuids < MaxConvos
       /\ conversations' = p.conversations
       /\ activeConvoId' = p.activeConvoId
       /\ uuids' = IF p.fresh THEN uuids + 1 ELSE uuids
       /\ \E updaterRan \in (IF Len(p.expiredIds) = 0 THEN {TRUE} ELSE BOOLEAN) :
              /\ calls' = IF updaterRan THEN calls \o deletesFor(p.expiredIds, "sweep") ELSE calls
              /\ swept' = [at |-> now, before |-> conversations, after |-> p.conversations,
                           issued |-> IF updaterRan THEN p.expiredIds ELSE <<>>]
       /\ Len(calls') <= MaxCalls

\* VaultModal onUnlock (page.tsx 906-909) and the two [vaultPassphrase] effects it
\* schedules: the vault load (199-237) starts getAllConversations, the retention
\* effect (300-330) runs purgeExpired once and starts its timer
UnlockVault(passphrase) ==
    /\ vaultPassphrase = ""
    /\ vaultPassphrase' = passphrase
    /\ vaultModalOpen' = FALSE
    /\ load' = [pc |-> "openDB", passphrase |-> passphrase, records |-> <<>>]
    /\ purgeExpired
    /\ UNCHANGED <<now, vaultError, store, notSweepVars>>

\* page.tsx lockVault; the load effect's cleanup cancels a pending load, whose
\* callbacks then do nothing
lockVault ==
    /\ vaultPassphrase # ""
    /\ vaultPassphrase' = ""
    /\ vaultModalOpen' = TRUE
    /\ load' = LoadIdle
    /\ UNCHANGED <<now, uuids, vaultError, conversations, activeConvoId, store, calls, notVaultVars>>

\* objectStore.getAll(): the values of all records, in key order
RECURSIVE getAll(_, _)
getAll(records, n) ==
    IF n > Len(StoreKeys) THEN <<>>
    ELSE [i \in 1..Cardinality({e \in records : e.key = StoreKeys[n]}) |->
             (CHOOSE e \in records : e.key = StoreKeys[n]).value]
         \o getAll(records, n + 1)

\* getAllConversations up to the result of its read transaction (storage.ts 120-126)
LoadGetAll ==
    /\ load.pc = "openDB"
    /\ load' = [load EXCEPT !.pc = "decrypt", !.records = getAll(store, 1)]
    /\ UNCHANGED <<now, uuids, vaultPassphrase, vaultModalOpen, vaultError, conversations,
                   activeConvoId, store, calls, notVaultVars>>

\* decrypted.sort((a, b) => b.createdAt - a.createdAt): a stable sort, latest first
RECURSIVE sortByCreatedAt(_)
sortByCreatedAt(convos) ==
    IF Len(convos) <= 1 THEN convos
    ELSE LET n == Len(convos)
             front == sortByCreatedAt(SubSeq(convos, 1, n - 1))
             x == convos[n]
             before == SelectSeq(front, LAMBDA c : c.createdAt >= x.createdAt)
             after == SelectSeq(front, LAMBDA c : c.createdAt < x.createdAt)
         IN before \o <<x>> \o after

\* a combinator that resolves with the values of the promises that resolved
promiseAllSettled(settled) ==
    [ok |-> TRUE,
     values |-> LET resolved == SelectSeq(settled, LAMBDA r : r.ok)
                IN  [i \in DOMAIN resolved |-> resolved[i].conversation]]

\* Promise.all: rejects when one of the promises rejects, and resolves with all
\* the values otherwise
promiseAll(settled) ==
    IF \E i \in DOMAIN settled : ~settled[i].ok THEN Rejected
    ELSE [ok |-> TRUE, values |-> [i \in DOMAIN settled |-> settled[i].conversation]]

\* the rest of getAllConversations (storage.ts 128-136): the legacy records are
\* passed on, decryptConversation is called for every other record, and the call
\* resolves with all the conversations, latest first, or rejects
LoadDecrypt ==
    /\ load.pc = "decrypt"
    /\ LET records == [i \in DOMAIN load.records |-> recordOf(load.records[i])]
           attempted == {i \in DOMAIN records : ~isLegacyConversation(records[i])}
           decrypted == [i \in DOMAIN records |->
                            IF i \in attempted
                            THEN decryptConversation(records[i], load.passphrase)
                            ELSE [ok |-> TRUE, conversation |-> records[i]]]
       IN  load' = [pc |-> "settled", passphrase |-> load.passphrase, records |-> load.records,
                    attempted |-> attempted,
                    mapped |-> decrypted,
                    result |-> IF promiseAll(decrypted).ok
                               THEN [ok |-> TRUE,
                                     conversations |-> sortByCreatedAt(promiseAll(decrypted).values)]
                               ELSE Rejected]
    /\ UNCHANGED <<now, uuids, vaultPassphrase, vaultModalOpen, vaultError, conversations,
                   activeConvoId, store, calls, notVaultVars>>

\* the callbacks of the vault load effect (page.tsx 203-232)
LoadDone ==
    /\ load.pc = "settled"
    /\ IF ~load.result.ok
       THEN /\ vaultPassphrase' = ""
            /\ vaultError' = "Unable to decrypt local data with this passphrase. Try again."
            /\ vaultModalOpen' = TRUE
            /\ UNCHANGED <<uuids, conversations, activeConvoId, calls>>
       ELSE LET saved == load.result.conversations
                unexpired == SelectSeq(saved, LAMBDA c : ~expired(c, now))
                expiredIds == idsOf(SelectSeq(saved, LAMBDA c : expired(c, now)))
            IN /\ calls' = calls \o deletesFor(expiredIds, "load")
               /\ Len(calls') <= MaxCalls
               /\ IF Len(unexpired) > 0
                  THEN /\ conversations' = unexpired
                       /\ activeConvoId' = unexpired[1].id
                       /\ UNCHANGED uuids
                  ELSE /\ uuids < MaxConvos
                       /\ conversations' = <<createEmptyConvo(randomUUID(uuids + 1), now, 24)>>
                       /\ activeConvoId' = randomUUID(uuids + 1)
                       /\ uuids' = uuids + 1
               /\ vaultError' = ""
               /\ UNCHANGED <<vaultPassphrase, vaultModalOpen>>
    /\ load' = LoadIdle
    /\ UNCHANGED <<now, store, notVaultVars>>

\* The handlers of the page's controls run while the vault is unlocked: the vault
\* prompt covers the page when vaultPassphrase is empty (page.tsx 571).

\* page.tsx handleSetRetention
handleSetRetention(hours) ==
    /\ vaultPassphrase # ""
    /\ LET u == updateConversation(conversations, activeConvoId, vaultPassphrase,
                    [convo \in each(conversations) |->
                        [convo EXCEPT !.retentionHours = hours,
                                      !.expiresAt = IF isSet(hours) THEN now + hours * HourMs
                                                    ELSE null]])
       IN /\ Len(calls) + Len(u.saves) <= MaxCalls
          /\ conversations' = u.conversations
          /\ calls' = calls \o u.saves
    /\ UNCHANGED <<now, uuids, vaultPassphrase, vaultModalOpen, vaultError, activeConvoId, store,
                   load, notVaultVars>>

\* history: the exchange in flight loses its conversation when another becomes active
abandon(call, nextActive) ==
    IF call.pc # "idle" /\ nextActive # call.activeConvoId
    THEN [call EXCEPT !.abandoned = TRUE]
    ELSE call

\* page.tsx handleNewConversation
handleNewConversation ==
    /\ vaultPassphrase # ""
    /\ uuids < MaxConvos
    /\ LET retentionHours == activeConvoOf(conversations, activeConvoId).retentionHours
           convo == createEmptyConvo(randomUUID(uuids + 1), now,
                                     IF retentionHours = null THEN 24 ELSE retentionHours)
       IN /\ conversations' = <<convo>> \o conversations
          /\ activeConvoId' = convo.id
          /\ stream' = abandon(stream, convo.id)
    /\ uuids' = uuids + 1
    /\ UNCHANGED <<now, vaultPassphrase, vaultModalOpen, vaultError, store, calls, load,
                   isTyping, streamingContent, lastVerification, abortRef, notPageVars>>

\* the sidebar's conversation button (page.tsx 611-616)
SelectConversation(id) ==
    /\ vaultPassphrase # ""
    /\ has(conversations, id)
    /\ id # activeConvoId
    /\ activeConvoId' = id
    /\ stream' = abandon(stream, id)
    /\ UNCHANGED <<now, uuids, vaultPassphrase, vaultModalOpen, vaultError, conversations, store,
                   calls, load, isTyping, streamingContent, lastVerification, abortRef, notPageVars>>

\* a deleteAllConversations call that has not passed its await
ClearCall == [op |-> "clear", id |-> "", pc |-> "openDB"]

\* page.tsx handleDeleteAll up to its await, the user having confirmed
handleDeleteAll ==
    /\ vaultPassphrase # ""
    /\ Len(calls) < MaxCalls
    /\ calls' = Append(calls, ClearCall)
    /\ UNCHANGED <<now, uuids, vaultPassphrase, vaultModalOpen, vaultError, conversations,
                   activeConvoId, store, load, notVaultVars>>

\* deleteAllConversations: openDB resolves (storage.ts 150)
ClearOpenDB(n) ==
    /\ calls[n].op = "clear" /\ calls[n].pc = "openDB"
    /\ calls' = [calls EXCEPT ![n].pc = "tx"]
    /\ UNCHANGED <<now, uuids, vaultPassphrase, vaultModalOpen, vaultError, conversations,
                   activeConvoId, store, load, notVaultVars>>

\* deleteAllConversations: the readwrite transaction clears the store and
\* completes (storage.ts 151-156), and handleDeleteAll goes on (page.tsx 552-554)
ClearTx(n) ==
    /\ calls[n].op = "clear" /\ calls[n].pc = "tx"
    /\ uuids < MaxConvos
    /\ store' = {}
    /\ calls' = [calls EXCEPT ![n].pc = "done"]
    /\ conversations' = <<createEmptyConvo(randomUUID(uuids + 1), now, 24)>>
    /\ activeConvoId' = randomUUID(uuids + 1)
    /\ stream' = abandon(stream, randomUUID(uuids + 1))
    /\ uuids' = uuids + 1
    /\ UNCHANGED <<now, vaultPassphrase, vaultModalOpen, vaultError, load,
                   isTyping, streamingContent, lastVerification, abortRef, notPageVars>>

\* the clock
Tick ==
    /\ now < PageLoadMs + MaxTicks * HourMs
    /\ now' = now + HourMs
    /\ UNCHANGED <<uuids, vaultPassphrase, vaultModalOpen, vaultError, conversations,
                   activeConvoId, store, calls, load, notVaultVars>>

\* the retention timer (page.tsx 328) fires
PurgeTimer ==
    /\ vaultPassphrase # ""
    /\ purgeExpired
    /\ UNCHANGED <<now, vaultPassphrase, vaultModalOpen, vaultError, store, load, notSweepVars>>

\* saveConversation: openDB resolves (storage.ts 108)
SaveOpenDB(n) ==
    /\ calls[n].op = "save" /\ calls[n].pc = "openDB"
    /\ calls' = [calls EXCEPT ![n].pc = "encrypt"]
    /\ UNCHANGED <<now, uuids, vaultPassphrase, vaultModalOpen, vaultError, conversations,
                   activeConvoId, store, load, notVaultVars>>

\* saveConversation: encryptConversation resolves (storage.ts 109) with the
\* record encryptConversation(calls[n].conversation, calls[n].passphrase, n)
SaveEncrypt(n) ==
    /\ calls[n].op = "save" /\ calls[n].pc = "encrypt"
    /\ calls' = [calls EXCEPT ![n].pc = "tx"]
    /\ UNCHANGED <<now, uuids, vaultPassphrase, vaultModalOpen, vaultError, conversations,
                   activeConvoId, store, load, notVaultVars>>

\* saveConversation: the readwrite transaction puts the record and completes
\* (storage.ts 110-115); readwrite transactions on one store run in the order
\* they are created
SavePut(n) ==
    /\ calls[n].op = "save" /\ calls[n].pc = "tx"
    /\ store' = put(store, calls[n].id, putOf(calls[n].conversation, calls[n].passphrase, n))
    /\ calls' = [calls EXCEPT ![n].pc = "done"]
    /\ UNCHANGED <<now, uuids, vaultPassphrase, vaultModalOpen, vaultError, conversations,
                   activeConvoId, load, notVaultVars>>

\* deleteConversation: openDB resolves (storage.ts 140)
DeleteOpenDB(n) ==
    /\ calls[n].op = "delete" /\ calls[n].pc = "openDB"
    /\ calls' = [calls EXCEPT ![n].pc = "tx"]
    /\ UNCHANGED <<now, uuids, vaultPassphrase, vaultModalOpen, vaultError, conversations,
                   activeConvoId, store, load, notVaultVars>>

\* deleteConversation: the readwrite transaction deletes the key and completes
\* (storage.ts 141-146)
DeleteTx(n) ==
    /\ calls[n].op = "delete" /\ calls[n].pc = "tx"
    /\ store' = delete(store, calls[n].id)
    /\ calls' = [calls EXCEPT ![n].pc = "done"]
    /\ UNCHANGED <<now, uuids, vaultPassphrase, vaultModalOpen, vaultError, conversations,
                   activeConvoId, load, notVaultVars>>

VaultNext ==
    \/ \E passphrase \in Passphrases : UnlockVault(passphrase)
    \/ lockVault
    \/ LoadGetAll
    \/ LoadDecrypt
    \/ LoadDone
    \/ \E hours \in RetentionChoices : handleSetRetention(hours)
    \/ handleNewConversation
    \/ \E id \in ConvoIds : SelectConversation(id)
    \/ Tick
    \/ PurgeTimer
    \/ \E n \in DOMAIN calls : SaveOpenDB(n)
    \/ \E n \in DOMAIN calls : SaveEncrypt(n)
    \/ \E n \in DOMAIN calls : SavePut(n)
    \/ \E n \in DOMAIN calls : DeleteOpenDB(n)
    \/ \E n \in DOMAIN calls : DeleteTx(n)

----------------------------------------------------------------------------
(* The vault's ordering contracts *)

savesFor(id) == {n \in DOMAIN calls : calls[n].op = "save" /\ calls[n].id = id}
deletesOf(id) == {n \in DOMAIN calls : calls[n].op = "delete" /\ calls[n].id = id}
lastOf(ns) == CHOOSE n \in ns : \A m \in ns : m <= n

\* the store's record for id is an encryption, under the call's passphrase, of
\* the conversation that was passed to call n
holdsSaveOf(id, n) ==
    /\ valueOf(store, id) # NoRecord
    /\ decryptConversation(recordOf(valueOf(store, id)), calls[n].passphrase)
           = [ok |-> TRUE, conversation |-> calls[n].conversation]

\* C2: for one conversation id (with no delete involved), once every issued save
\* has completed, the stored record is the encryption of the conversation that
\* was passed to the last-issued save.
C2_SavesInIssueOrder ==
    \A id \in ConvoIds :
        (/\ savesFor(id) # {}
         /\ deletesOf(id) = {}
         /\ \A n \in savesFor(id) : calls[n].pc = "done")
            => holdsSaveOf(id, lastOf(savesFor(id)))

\* C3: once a sweep's deleteConversation(id) and every saveConversation for id
\* issued before it have completed (none was issued after it), the store holds
\* no record for id.
C3_SweepDeleteNotUndone ==
    \A d \in DOMAIN calls :
        (/\ calls[d].op = "delete" /\ calls[d].by = "sweep" /\ calls[d].pc = "done"
         /\ \A n \in savesFor(calls[d].id) : n < d /\ calls[n].pc = "done")
            => valueOf(store, calls[d].id) = NoRecord

-----------------------------------------------------------------------------
(* The vault over a store that an earlier session has written *)

\* a conversation an earlier session saved: one that is kept, with an exchange
\* that got no chat id, and one whose retention has run out
storedConvo(id, kind) ==
    IF kind = "kept"
    THEN [id |-> id,
          title |-> "hi",
          messages |-> <<[role |-> "user", content |-> "hi", timestamp |-> PageLoadMs - 500,
                          encrypted |-> TRUE],
                         [role |-> "assistant", content |-> "a", timestamp |-> PageLoadMs - 400,
                          encrypted |-> FALSE, chatId |-> undefined]>>,
          createdAt |-> PageLoadMs - 500,
          retentionHours |-> null,
          expiresAt |-> null,
          plans |-> <<>>]
    ELSE createEmptyConvo(id, PageLoadMs - 2 * HourMs, 1)

\* what the store may hold under a key of the earlier session: an encrypted
\* record under one of the passphrases, or a conversation as earlier versions
\* of the application stored it
StoredValues(id) ==
    { putOf(storedConvo(id, kind), passphrase, 0) :
        kind \in {"kept", "expired"}, passphrase \in Passphrases }
    \cup { legacyOf(storedConvo(id, "kept")) }

Stores ==
    UNION { { {[key |-> id, value |-> f[id]] : id \in ids} :
                f \in { g \in [ids -> UNION {StoredValues(id) : id \in ids}] :
                          \A id \in ids : g[id] \in StoredValues(id) } } :
            ids \in SUBSET StoredIds }

\* the page is opened on a store an earlier session has written
StoreInit ==
    /\ now = PageLoadMs
    /\ uuids = 1
    /\ vaultPassphrase = ""
    /\ vaultModalOpen = FALSE
    /\ vaultError = ""
    /\ conversations = <<createEmptyConvo(randomUUID(1), PageLoadMs, 24)>>
    /\ activeConvoId = randomUUID(1)
    /\ store \in Stores
    /\ calls = <<>>
    /\ load = LoadIdle
    /\ swept = NoSweep

\* no storage call is in progress
quiet == load.pc = "idle" /\ \A n \in DOMAIN calls : calls[n].pc = "done"

\* here the user locks and unlocks the vault when the storage calls have settled,
\* and changes the retention when the load has
StoreNext ==
    \/ \E passphrase \in Passphrases : quiet /\ UnlockVault(passphrase)
    \/ quiet /\ lockVault
    \/ LoadGetAll
    \/ LoadDecrypt
    \/ LoadDone
    \/ \E hours \in RetentionChoices : load.pc = "idle" /\ handleSetRetention(hours)
    \/ \E n \in DOMAIN calls : SaveOpenDB(n)
    \/ \E n \in DOMAIN calls : SaveEncrypt(n)
    \/ \E n \in DOMAIN calls : SavePut(n)
    \/ \E n \in DOMAIN calls : DeleteOpenDB(n)
    \/ \E n \in DOMAIN calls : DeleteTx(n)

\* the encrypted records a settled load has read, by their place in the batch
encryptedOf(settled) == {i \in DOMAIN settled.records : settled.records[i].v = 1}

\* equality of two conversations up to the properties whose value is undefined
deepEqual(C, D) == parse(stringify(C)) = parse(stringify(D))

\* the load returned a conversation equal to C
returnedEqual(settled, C) ==
    settled.result.ok
    /\ \E k \in DOMAIN settled.result.conversations : deepEqual(settled.result.conversations[k], C)

sealedUnderAnother(value, passphrase) == value.v = 1 /\ value.passphrase # passphrase

\* C18: when the decryption of one stored record fails, getAllConversations fails
\* as a whole and returns no records; the caller then clears the passphrase,
\* opens the vault prompt again and leaves the displayed conversations as they are.
C18_LoadFailsAsAWhole ==
    [][/\ (/\ load.pc = "decrypt" /\ load'.pc = "settled"
           /\ \E i \in DOMAIN load.records : sealedUnderAnother(load.records[i], load.passphrase))
              => load'.result = Rejected
       /\ (load.pc = "settled" /\ load.result = Rejected /\ load'.pc # "settled")
              => /\ vaultPassphrase' = ""
                 /\ vaultModalOpen'
                 /\ conversations' = conversations
                 /\ activeConvoId' = activeConvoId]_vars

\* a load has failed on a store of which it could open one record and not another
C18_Witness ==
    /\ load = LoadIdle
    /\ vaultPassphrase = ""
    /\ vaultModalOpen
    /\ vaultError # ""
    /\ \E e1, e2 \in store :
          e1.value.v = 1 /\ e2.value.v = 1 /\ e1.value.passphrase # e2.value.passphrase

\* the shape of an encrypted record: payload, iv, salt and version
hasEncryptedShape(record) == {"payload", "iv", "salt", "v"} \subseteq DOMAIN record

\* C19: getAllConversations returns exactly the stored records that lack the
\* shape of an encrypted record as they are, without calling decryptConversation
\* for them, and decrypts every record that has the shape with the passphrase.
C19_LegacyPassedThrough ==
    load.pc = "settled" =>
        \A i \in DOMAIN load.records :
            LET record == recordOf(load.records[i])
            IN  IF hasEncryptedShape(record)
                THEN /\ i \in load.attempted
                     /\ load.mapped[i] =
                            IF load.records[i].passphrase = load.passphrase
                            THEN [ok |-> TRUE,
                                  conversation |-> parse(stringify(load.records[i].conversation))]
                            ELSE [ok |-> FALSE]
                ELSE /\ i \notin load.attempted
                     /\ load.mapped[i] = [ok |-> TRUE, conversation |-> record]

\* a load has read a legacy conversation and an encrypted record
C19_Witness ==
    /\ load.pc = "settled"
    /\ load.result.ok
    /\ \E i, j \in DOMAIN load.records : load.records[i].v = 0 /\ load.records[j].v = 1

\* C20: the store holds at most one record per conversation id: a save for an id
\* puts its record in the place of the record of that id and leaves the records
\* of all other ids as they are.
C20_OneRecordPerId ==
    [][/\ \A e1, e2 \in store' : e1.key = e2.key => e1 = e2
       /\ \A n \in DOMAIN calls :
            (calls[n].op = "save" /\ calls[n].pc = "tx" /\ calls'[n].pc = "done")
                => /\ {e \in store' : e.key = calls[n].id}
                        = {[key |-> calls[n].id,
                            value |-> putOf(calls[n].conversation, calls[n].passphrase, n)]}
                   /\ {e \in store' : e.key # calls[n].id} = {e \in store : e.key # calls[n].id}]_vars

\* a second save for an id has completed, beside the record of another id
C20_Witness ==
    /\ \E n, m \in DOMAIN calls :
          /\ n < m /\ calls[n].id = calls[m].id
          /\ calls[n].op = "save" /\ calls[m].op = "save"
          /\ calls[n].pc = "done" /\ calls[m].pc = "done"
    /\ Cardinality(store) >= 2

-----------------------------------------------------------------------------
(* One streamChat call, near-ai.ts: the outgoing messages are encrypted, the
   response body is read chunk by chunk and parsed as server-sent events.

   The response body is a sequence of symbols: the characters the parser looks
   at (space, carriage return, line feed) and the tokens between them.  The
   texts the call only concatenates and passes on are TLA+ strings. *)

\* secp256k1: a private key, its public key, and the secret two parties share
getPublicKey(privateKey) == [point |-> privateKey]

getSharedSecret(privateKey, publicKey) == {privateKey, publicKey.point}

\* hkdf(sha256, sharedSecret, undefined, "ecdsa_encryption", 32)
hkdf(sharedSecret) == [ikm |-> sharedSecret, info |-> "ecdsa_encryption", length |-> 32]

\* crypto.ts generateClientKeys, as the n-th draw of the random source
generateClientKeys(n) ==
    LET privateKey == "k" \o ToString(n)
    IN  [publicKeyHex |-> getPublicKey(privateKey), privateKey |-> privateKey]

NoKeys == [publicKeyHex |-> getPublicKey(""), privateKey |-> ""]

\* the key the attestation report names, held by the enclave
ModelPrivateKey == "model"
signingPublicKey == getPublicKey(ModelPrivateKey)

\* crypto.ts encryptMessageWithClientKeys, with the n-th nonce of the random source:
\* ephemeralPub || nonce || ciphertextWithTag, where ephemeralPub is the client's public key
encryptMessageWithClientKeys(plaintext, modelPubKeyHex, clientKeys, n) ==
    LET derivedKey == hkdf(getSharedSecret(clientKeys.privateKey, modelPubKeyHex))
        nonce == getRandomValues(12, n)
    IN  [ephemeralPub |-> clientKeys.publicKeyHex,
         nonce |-> nonce,
         ciphertextWithTag |-> aesGcmEncrypt(derivedKey, nonce, plaintext)]

\* what the enclave streams back: a delta sealed for a client public key under
\* an ephemeral key of its own
EnclaveEphemeralKey == "enclave"
sealFor(clientPrivateKey, text) ==
    LET derivedKey == hkdf(getSharedSecret(EnclaveEphemeralKey, getPublicKey(clientPrivateKey)))
        nonce == getRandomValues(12, 0)
    IN  [ephemeralPub |-> getPublicKey(EnclaveEphemeralKey),
         nonce |-> nonce,
         ciphertextWithTag |-> aesGcmEncrypt(derivedKey, nonce, text)]

\* the hex texts that are well-formed encrypted deltas, and what hexToBytes and
\* the three slices of decryptResponse find in them; any other text has too few
\* bytes for a public key
SealedDeltas ==
    ("E1(a)" :> sealFor("k1", "a")) @@ ("E1(b)" :> sealFor("k1", "b")) @@ ("E9(a)" :> sealFor("k9", "a"))

\* a decryption that opens a delta whatever key it was sealed for
decryptResponseAnyKey(encryptedHex, clientPrivateKey) ==
    IF encryptedHex \notin DOMAIN SealedDeltas THEN [ok |-> FALSE]
    ELSE [ok |-> TRUE, text |-> SealedDeltas[encryptedHex].ciphertextWithTag.plaintext]

\* crypto.ts decryptResponse: the text, or a rejection
decryptResponse(encryptedHex, clientPrivateKey) ==
    IF encryptedHex \notin DOMAIN SealedDeltas THEN [ok |-> FALSE]
    ELSE LET data == SealedDeltas[encryptedHex]
             derivedKey == hkdf(getSharedSecret(clientPrivateKey, data.ephemeralPub))
             decrypted == aesGcmDecrypt(derivedKey, data.nonce, data.ciphertextWithTag)
         IN  IF decrypted.ok THEN [ok |-> TRUE, text |-> decrypted.plaintext] ELSE [ok |-> FALSE]

\* ---- server-sent events

LF == "\n"
Whitespace == {" ", "\r", "\t", LF}

\* buffer.split("\n"): the pieces between line feeds; the last piece is what
\* follows the last line feed
RECURSIVE split(_)
split(buffer) ==
    IF \A i \in 1..Len(buffer) : buffer[i] # LF THEN <<buffer>>
    ELSE LET i == CHOOSE i \in 1..Len(buffer) : buffer[i] = LF /\ \A j \in 1..(i - 1) : buffer[j] # LF
         IN  <<SubSeq(buffer, 1, i - 1)>> \o split(SubSeq(buffer, i + 1, Len(buffer)))

\* a buffer that forgets the unfinished line of a chunk
popNothing(lines) == <<>>

\* lines.pop() || "": the unfinished line stays in the buffer
pop(lines) == lines[Len(lines)]

\* String.prototype.trim
RECURSIVE trim(_)
trim(line) ==
    IF line # <<>> /\ Head(line) \in Whitespace THEN trim(Tail(line))
    ELSE IF line # <<>> /\ line[Len(line)] \in Whitespace THEN trim(SubSeq(line, 1, Len(line) - 1))
    ELSE line

\* trimmed.startsWith("data: ")
startsWithData(trimmed) == Len(trimmed) >= 2 /\ trimmed[1] = "data:" /\ trimmed[2] = " "

\* trimmed.slice(6)
sliceData(trimmed) == SubSeq(trimmed, 3, Len(trimmed))

DONE == <<"[DONE]">>

\* the members an event object is written with, and what JSON.parse makes of each
content(text) == JArr(<<JObj(<<"delta">>, <<JObj(<<"content">>, <<JStr(text)>>)>>)>>)

Members ==
    ("id=chat-1" :> [key |-> "id", val |-> JStr("chat-1")])
    @@ ("id=chat-2" :> [key |-> "id", val |-> JStr("chat-2")])
    @@ ("content=a" :> [key |-> "choices", val |-> content("a")])
    @@ ("content=b" :> [key |-> "choices", val |-> content("b")])
    @@ ("content=" :> [key |-> "choices", val |-> content("")])
    @@ ("content=E1(a)" :> [key |-> "choices", val |-> content("E1(a)")])
    @@ ("content=E1(b)" :> [key |-> "choices", val |-> content("E1(b)")])
    @@ ("content=E9(a)" :> [key |-> "choices", val |-> content("E9(a)")])
    @@ ("choices=[]" :> [key |-> "choices", val |-> JArr(<<>>)])

\* JSON.parse(data): an object written as { member ... }, or a SyntaxError
jsonParse(data) ==
    IF /\ Len(data) >= 2 /\ data[1] = "{" /\ data[Len(data)] = "}"
       /\ \A i \in 2..(Len(data) - 1) : data[i] \in DOMAIN Members
    THEN [ok |-> TRUE,
          value |-> JObj([i \in 1..(Len(data) - 2) |-> Members[data[i + 1]].key],
                         [i \in 1..(Len(data) - 2) |-> Members[data[i + 1]].val])]
    ELSE [ok |-> FALSE]

\* parsed.choices?.[0]?.delta?.content
deltaOf(parsed) == getProp(getProp(firstItem(getProp(parsed, "choices")), "delta"), "content")

\* what one line of the stream asks the loop to do
lineOf(line) ==
    LET trimmed == trim(line)
        data == sliceData(trimmed)
        parsed == jsonParse(data)
    IN  IF ~startsWithData(trimmed) THEN [kind |-> "skip"]
        ELSE IF data = DONE THEN [kind |-> "done"]
        ELSE IF ~parsed.ok THEN [kind |-> "malformed"]
        ELSE [kind |-> "event", id |-> getProp(parsed.value, "id"), delta |-> deltaOf(parsed.value)]

\* ---- the inputs of a call

Event(members) == <<"data:", " ", "{">> \o members \o <<"}">>

\* the lines a response body is made of, each with what its writer put in it:
\* the delta and the chat id of an event ("" for none), and whether it is the
\* terminal marker
Line(text, delta, id) == [text |-> text, delta |-> delta, id |-> id, done |-> FALSE]

Lines ==
    { Line(Event(<<"id=chat-1", "content=a">>), "a", "chat-1"),
      Line(Event(<<"content=b">>), "b", ""),
      Line(Event(<<"id=chat-2", "content=E1(b)">>), "E1(b)", "chat-2"),
      Line(Event(<<"content=E9(a)">>), "E9(a)", ""),
      Line(Event(<<"id=chat-1", "content=">>), "", "chat-1"),
      Line(Event(<<"choices=[]">>), "", ""),
      [text |-> <<"data:", " ", "[DONE]">>, delta |-> "", id |-> "", done |-> TRUE],
      Line(<<"data:", " ", "{", "content=a">>, "", ""),
      Line(<<"\r">>, "", "") }

StreamLines == { line.text : line \in Lines }

MaxLines == 2
MaxHistory == 1
ChunkLen == 5

RECURSIVE joinLines(_)
joinLines(lines) == IF lines = <<>> THEN <<>> ELSE Head(lines) \o <<LF>> \o joinLines(Tail(lines))

\* the response bodies: up to MaxLines lines, each ended by a line feed
Bodies == { joinLines(lines) : lines \in UNION { [1..n -> StreamLines] : n \in 0..MaxLines } }

Histories ==
    { [i \in 1..n |-> [role |-> IF i % 2 = 1 THEN "user" ELSE "assistant", content |-> "h" \o ToString(i)]] :
        n \in 0..MaxHistory }

SYSTEM_PROMPT == "You are SafeMind, ..."

NoResult == [kind |-> "pending"]

\* no call
ChatIdle ==
    /\ sc = [pc |-> "idle", useE2EE |-> FALSE, message |-> "", history |-> <<>>, messages |-> <<>>,
             clientKeys |-> NoKeys, i |-> 0, fullContent |-> "", buffer |-> <<>>, rawResponse |-> <<>>,
             latestChatId |-> "", lines |-> <<>>, delta |-> "", result |-> NoResult]
    /\ net = [body |-> <<>>, sent |-> 0, queue |-> <<>>]
    /\ keysDrawn = 0
    /\ encryptions = <<>>
    /\ chunksOut = <<>>
    /\ afterDone = [seen |-> FALSE, chunks |-> <<>>, chatIds |-> <<>>]

\* streamChat has been called; the body is what the server will answer with
ChatInit ==
    /\ \E e2ee \in BOOLEAN, history \in Histories :
        sc = [pc |-> "start", useE2EE |-> e2ee, message |-> "hi", history |-> history, messages |-> <<>>,
              clientKeys |-> NoKeys, i |-> 0, fullContent |-> "", buffer |-> <<>>, rawResponse |-> <<>>,
              latestChatId |-> "", lines |-> <<>>, delta |-> "", result |-> NoResult]
    /\ \E body \in Bodies : net = [body |-> body, sent |-> 0, queue |-> <<>>]
    /\ keysDrawn = 0
    /\ encryptions = <<>>
    /\ chunksOut = <<>>
    /\ afterDone = [seen |-> FALSE, chunks |-> <<>>, chatIds |-> <<>>]

\* ---- the steps of the call, one per stretch of code between two awaits

\* near-ai.ts 37-53: the messages are assembled; with E2EE the attestation is
\* awaited and one keypair is generated for the call
ScStart ==
    /\ sc.pc = "start"
    /\ LET messages == <<[role |-> "system", content |-> [text |-> SYSTEM_PROMPT]]>>
                       \o [i \in 1..Len(sc.history) |->
                              [role |-> sc.history[i].role, content |-> [text |-> sc.history[i].content]]]
                       \o <<[role |-> "user", content |-> [text |-> sc.message]]>>
       IN  IF sc.useE2EE
           THEN \E attested \in BOOLEAN :
                   IF attested
                   THEN /\ keysDrawn' = keysDrawn + 1
                        /\ sc' = [sc EXCEPT !.pc = "encrypt", !.messages = messages, !.i = 1,
                                            !.clientKeys = generateClientKeys(keysDrawn + 1)]
                   ELSE /\ sc' = [sc EXCEPT !.pc = "failed", !.messages = messages]
                        /\ UNCHANGED keysDrawn
           ELSE /\ sc' = [sc EXCEPT !.pc = "fetch", !.messages = messages]
                /\ UNCHANGED keysDrawn
    /\ UNCHANGED <<net, encryptions, chunksOut, afterDone, notChatVars>>

\* near-ai.ts 59-66: one turn of the loop that encrypts every message with clientKeys
ScEncrypt ==
    /\ sc.pc = "encrypt"
    /\ LET plaintext == sc.messages[sc.i].content.text
           encrypted == encryptMessageWithClientKeys(plaintext, signingPublicKey, sc.clientKeys,
                                                     Len(encryptions) + 1)
       IN  /\ sc' = [sc EXCEPT !.messages[sc.i].content = [hex |-> encrypted],
                               !.i = sc.i + 1,
                               !.pc = IF sc.i + 1 > Len(sc.messages) THEN "fetch" ELSE "encrypt"]
           /\ encryptions' = Append(encryptions,
                                    [privateKey |-> sc.clientKeys.privateKey, plaintext |-> plaintext])
    /\ UNCHANGED <<net, keysDrawn, chunksOut, afterDone, notChatVars>>

\* near-ai.ts 68-98: the request is sent; a non-ok answer and an answer without
\* a body are thrown
ScFetch ==
    /\ sc.pc = "fetch"
    /\ \E ok \in BOOLEAN : sc' = [sc EXCEPT !.pc = IF ok THEN "read" ELSE "failed"]
    /\ UNCHANGED <<net, keysDrawn, encryptions, chunksOut, afterDone, notChatVars>>

\* the transport: the next n symbols of the body arrive as one chunk and wait
\* in the stream's queue
Arrive(n) ==
    /\ sc.pc \in {"read", "lines", "decrypt"}
    /\ n >= 1 /\ net.sent + n <= Len(net.body)
    /\ net' = [net EXCEPT !.sent = net.sent + n,
                          !.queue = Append(net.queue, SubSeq(net.body, net.sent + 1, net.sent + n))]
    /\ UNCHANGED <<sc, keysDrawn, encryptions, chunksOut, afterDone, notChatVars>>

\* the body has fully arrived and has been read
streamEnded == net.sent = Len(net.body) /\ net.queue = <<>>

\* near-ai.ts 101-107: reader.read() resolves with the next chunk, which joins
\* the buffer; the complete lines are taken out of it
ScRead ==
    /\ sc.pc = "read"
    /\ net.queue # <<>>
    /\ LET value == Head(net.queue)
           buffer == sc.buffer \o value
           lines == split(buffer)
       IN  sc' = [sc EXCEPT !.pc = "lines",
                            !.rawResponse = sc.rawResponse \o value,
                            !.buffer = pop(lines),
                            !.lines = SubSeq(lines, 1, Len(lines) - 1)]
    /\ net' = [net EXCEPT !.queue = Tail(net.queue)]
    /\ UNCHANGED <<keysDrawn, encryptions, chunksOut, afterDone, notChatVars>>

\* onChunk(text), and the note of it when '[DONE]' came before
emit(text, noted) ==
    /\ chunksOut' = Append(chunksOut, text)
    /\ afterDone' = IF noted.seen THEN [noted EXCEPT !.chunks = Append(noted.chunks, text)] ELSE noted

\* near-ai.ts 109-143: one turn of the loop over the lines of a chunk, up to the
\* await of decryptResponse
ScLine ==
    /\ sc.pc = "lines"
    /\ IF sc.lines = <<>>
       THEN /\ sc' = [sc EXCEPT !.pc = "read"]
            /\ UNCHANGED <<chunksOut, afterDone>>
       ELSE LET line == lineOf(Head(sc.lines))
                rest == Tail(sc.lines)
            IN  IF line.kind = "done"
                THEN /\ sc' = [sc EXCEPT !.lines = rest]
                     /\ afterDone' = [afterDone EXCEPT !.seen = TRUE]
                     /\ UNCHANGED chunksOut
                ELSE IF line.kind # "event"
                THEN /\ sc' = [sc EXCEPT !.lines = rest]
                     /\ UNCHANGED <<chunksOut, afterDone>>
                ELSE LET latestChatId == IF truthy(line.id) THEN line.id.s ELSE sc.latestChatId
                         noted == IF truthy(line.id) /\ afterDone.seen /\ line.id.s # sc.latestChatId
                                  THEN [afterDone EXCEPT !.chatIds = Append(afterDone.chatIds, line.id.s)]
                                  ELSE afterDone
                     IN  IF ~truthy(line.delta)
                         THEN /\ sc' = [sc EXCEPT !.lines = rest, !.latestChatId = latestChatId]
                              /\ afterDone' = noted
                              /\ UNCHANGED chunksOut
                         ELSE IF sc.useE2EE
                         THEN /\ sc' = [sc EXCEPT !.lines = rest, !.latestChatId = latestChatId,
                                                  !.pc = "decrypt", !.delta = line.delta.s]
                              /\ afterDone' = noted
                              /\ UNCHANGED chunksOut
                         ELSE /\ sc' = [sc EXCEPT !.lines = rest, !.latestChatId = latestChatId,
                                                  !.fullContent = sc.fullContent \o line.delta.s]
                              /\ emit(line.delta.s, noted)
    /\ UNCHANGED <<net, keysDrawn, encryptions, notChatVars>>

\* near-ai.ts 128-136: decryptResponse settles; its text, or on a rejection the
\* delta as it came, joins the content and goes to onChunk
ScDecrypt ==
    /\ sc.pc = "decrypt"
    /\ LET decrypted == decryptResponse(sc.delta, sc.clientKeys.privateKey)
           text == IF decrypted.ok THEN decrypted.text ELSE sc.delta
       IN  /\ sc' = [sc EXCEPT !.pc = "lines", !.delta = "", !.fullContent = sc.fullContent \o text]
           /\ emit(text, afterDone)
    /\ UNCHANGED <<net, keysDrawn, encryptions, notChatVars>>

\* sha256Hex takes the name of a text; this part names a text by its length
named(text) == Len(text) % (MaxText + 1)

\* the answers of the signature endpoint to a call: the exact record, an error, no answer
ChatSignatureResponses(rq, rs) ==
    { resp \in SignatureResponses(rq, rs) :
        resp.status \in {0, 500} \/ (usableRecord(resp) /\ resp.textKind = "exact") }

\* near-ai.ts 102 and 147-160: read() reports the end of the body; the
\* verification is built when a chat id was seen, and the result is returned
ScFinish ==
    /\ sc.pc = "read"
    /\ streamEnded
    /\ LET requestHash == sha256Hex(named(sc.messages))
           responseHash == sha256Hex(named(sc.rawResponse))
       IN  \E resp \in ChatSignatureResponses(requestHash, responseHash) :
             LET verification == IF sc.latestChatId # ""
                                 THEN buildVerification(sc.latestChatId, requestHash, responseHash, resp)
                                 ELSE [kind |-> "undefined"]
             IN  sc' = IF verification.kind = "throw"
                       THEN [sc EXCEPT !.pc = "failed", !.result = verification]
                       ELSE [sc EXCEPT !.pc = "done",
                                       !.result = [kind |-> "result", content |-> sc.fullContent,
                                                   chatId |-> sc.latestChatId,
                                                   verification |-> verification]]
    /\ UNCHANGED <<net, keysDrawn, encryptions, chunksOut, afterDone, notChatVars>>

ChatNext ==
    \/ ScStart
    \/ ScEncrypt
    \/ ScFetch
    \/ \E n \in {ChunkLen, Len(net.body) - net.sent} : Arrive(n)
    \/ ScRead
    \/ ScLine
    \/ ScDecrypt
    \/ ScFinish

\* C12: every encrypted message uses a freshly generated keypair of its own: no
\* private key encrypts more than one message, the system, history and user
\* messages of one streamChat call included.
C12_FreshKeyPerMessage ==
    \A i, j \in 1..Len(encryptions) :
        i # j => encryptions[i].privateKey # encryptions[j].privateKey

\* the texts the enclave seals, and the text a delta holds for the holder of a
\* private key: what was sealed for that key, if anything was
Plaintexts == {"a", "b"}

sealedText(delta, privateKey) ==
    { text \in Plaintexts : delta \in DOMAIN SealedDeltas /\ SealedDeltas[delta] = sealFor(privateKey, text) }

\* the output of one delta: the decrypted text, or the delta as it came on a
\* failed decryption and without E2EE
outputOf(delta, e2ee, privateKey) ==
    IF e2ee /\ sealedText(delta, privateKey) # {}
    THEN CHOOSE text \in sealedText(delta, privateKey) : TRUE
    ELSE delta

\* C13: in an E2EE exchange a delta that cannot be decrypted is non-fatal: the
\* delta as it came joins the content and goes to onChunk, the loop goes on with
\* the next line, and a later delta sealed for the call's key is decrypted.
C13_DecryptFailureNonFatal ==
    [][(sc.pc = "decrypt" /\ sc'.pc # "decrypt") =>
          LET out == outputOf(sc.delta, TRUE, sc.clientKeys.privateKey)
          IN  /\ sc'.pc = "lines"
              /\ sc'.lines = sc.lines
              /\ sc'.fullContent = sc.fullContent \o out
              /\ chunksOut' = Append(chunksOut, out)]_vars

\* a delta sealed for another key came through as it was, and the next one was decrypted
C13_Witness ==
    /\ sc.useE2EE
    /\ chunksOut = <<"E9(a)", "b">>
    /\ sc.fullContent = "E9(a)b"

\* the lines of a body, as its writer put them
writtenLines(body) ==
    LET pieces == split(body)
    IN  [i \in 1..(Len(pieces) - 1) |-> CHOOSE line \in Lines : line.text = pieces[i]]

\* the outputs of the non-empty deltas of a body, in the order of the body
RECURSIVE outputsOf(_, _, _)
outputsOf(written, e2ee, privateKey) ==
    IF written = <<>> THEN <<>>
    ELSE IF Head(written).delta = "" THEN outputsOf(Tail(written), e2ee, privateKey)
    ELSE <<outputOf(Head(written).delta, e2ee, privateKey)>> \o outputsOf(Tail(written), e2ee, privateKey)

RECURSIVE concat(_)
concat(texts) == IF texts = <<>> THEN "" ELSE Head(texts) \o concat(Tail(texts))

\* C14: the content streamChat returns is the concatenation, in arrival order, of
\* the outputs of all the non-empty deltas of the stream, and onChunk has been
\* called once per such delta in that order.
C14_ContentIsConcatenation ==
    sc.pc = "done" =>
        LET outputs == outputsOf(writtenLines(net.body), sc.useE2EE, sc.clientKeys.privateKey)
        IN  /\ sc.result.content = concat(outputs)
            /\ chunksOut = outputs

\* a call returned after two deltas that came in three chunks
C14_Witness ==
    /\ sc.pc = "done"
    /\ Len(chunksOut) = 2
    /\ Len(net.body) > 2 * ChunkLen

\* C15: while the decryption of a delta is pending, streamChat keeps reading: a
\* chunk that waits in the transport's queue can be read without waiting for the
\* decryption to settle.
C15_ReadNotBlockedByDecrypt ==
    (sc.pc = "decrypt" /\ net.queue # <<>>) => ENABLED ScRead

\* C16: '[DONE]' ends the stream: after it no delta of a later event joins the
\* content or goes to onChunk, and no later event changes the chat id.
C16_DoneEndsStream ==
    afterDone.chunks = <<>> /\ afterDone.chatIds = <<>>

-----------------------------------------------------------------------------
(* The message encryption on bytes: crypto.ts hexToBytes, normalizePubKey,
   encryptMessageWithClientKeys and decryptResponse as they lay out and read
   the hex text.  A JavaScript string is here the sequence of its UTF-16 code
   units; secp256k1 is a small group with the same agreement law. *)

\* parseInt of one hex digit
hexValue(c) ==
    CASE c = "0" -> 0 [] c = "1" -> 1 [] c = "2" -> 2 [] c = "3" -> 3 [] c = "4" -> 4
      [] c = "5" -> 5 [] c = "6" -> 6 [] c = "7" -> 7 [] c = "8" -> 8 [] c = "9" -> 9
      [] c \in {"a", "A"} -> 10 [] c \in {"b", "B"} -> 11 [] c \in {"c", "C"} -> 12
      [] c \in {"d", "D"} -> 13 [] c \in {"e", "E"} -> 14 [] c \in {"f", "F"} -> 15

\* crypto.ts hexToBytes, on texts of hex digits of even length
hexToBytes(hex) ==
    LET clean == strip0x(hex)
    IN  [i \in 1..(Len(clean) \div 2) |-> 16 * hexValue(clean[2 * i - 1]) + hexValue(clean[2 * i])]

\* a normalisation that leaves a raw 64-byte key without its prefix byte
keepLength(pubKeyHex) == hexToBytes(pubKeyHex)

\* crypto.ts normalizePubKey
normalizePubKey(pubKeyHex) ==
    LET bytes == hexToBytes(strip0x(pubKeyHex))
    IN  IF Len(bytes) = 64 THEN <<4>> \o bytes ELSE bytes

\* the group in the place of secp256k1: the powers of Generator modulo GroupPrime
GroupPrime == 251
Generator == 6

RECURSIVE power(_, _)
power(base, k) == IF k = 0 THEN 1 ELSE (base * power(base, k - 1)) % GroupPrime

\* a 32-byte big-endian coordinate
coordinate(x) == Rep(0, 31) \o <<x>>

\* the uncompressed encoding of a point: 0x04, X, Y
uncompressed(x) == <<4>> \o coordinate(x) \o coordinate((x * x + 7) % GroupPrime)

\* secp256k1.getPublicKey(privateKey, false)
secp256k1GetPublicKey(privateKey) == uncompressed(power(Generator, privateKey))

\* secp256k1.getSharedSecret(privateKey, publicKey, false): throws unless the
\* public key is an encoded point
secp256k1GetSharedSecret(privateKey, publicKey) ==
    IF Len(publicKey) = 65 /\ publicKey[1] = 4 /\ publicKey = uncompressed(publicKey[33])
    THEN [ok |-> TRUE, point |-> uncompressed(power(publicKey[33], privateKey))]
    ELSE [ok |-> FALSE]

\* new TextEncoder().encode: UTF-8, a surrogate without its partner becomes U+FFFD
isHigh(u) == 55296 <= u /\ u <= 56319
isLow(u) == 56320 <= u /\ u <= 57343

utf8(cp) ==
    IF cp < 128 THEN <<cp>>
    ELSE IF cp < 2048 THEN <<192 + (cp \div 64), 128 + (cp % 64)>>
    ELSE IF cp < 65536
    THEN <<224 + (cp \div 4096), 128 + ((cp \div 64) % 64), 128 + (cp % 64)>>
    ELSE <<240 + (cp \div 262144), 128 + ((cp \div 4096) % 64), 128 + ((cp \div 64) % 64),
           128 + (cp % 64)>>

RECURSIVE textEncode(_)
textEncode(units) ==
    IF units = <<>> THEN <<>>
    ELSE IF isHigh(units[1]) /\ Len(units) >= 2 /\ isLow(units[2])
    THEN utf8(65536 + (units[1] - 55296) * 1024 + (units[2] - 56320))
         \o textEncode(SubSeq(units, 3, Len(units)))
    ELSE IF isHigh(units[1]) \/ isLow(units[1])
    THEN utf8(65533) \o textEncode(Tail(units))
    ELSE utf8(units[1]) \o textEncode(Tail(units))

\* the code units of the UTF-8 bytes, for bytes that an encoder has written
RECURSIVE utf8Decode(_)
utf8Decode(bytes) ==
    IF bytes = <<>> THEN <<>>
    ELSE IF bytes[1] < 128 THEN <<bytes[1]>> \o utf8Decode(Tail(bytes))
    ELSE IF bytes[1] < 224
    THEN <<(bytes[1] - 192) * 64 + (bytes[2] - 128)>> \o utf8Decode(SubSeq(bytes, 3, Len(bytes)))
    ELSE IF bytes[1] < 240
    THEN <<(bytes[1] - 224) * 4096 + (bytes[2] - 128) * 64 + (bytes[3] - 128)>>
         \o utf8Decode(SubSeq(bytes, 4, Len(bytes)))
    ELSE LET cp == (bytes[1] - 240) * 262144 + (bytes[2] - 128) * 4096
                   + (bytes[3] - 128) * 64 + (bytes[4] - 128)
         IN  <<55296 + ((cp - 65536) \div 1024), 56320 + ((cp - 65536) % 1024)>>
             \o utf8Decode(SubSeq(bytes, 5, Len(bytes)))

\* new TextDecoder().decode: UTF-8 with ignoreBOM false, a leading U+FEFF is dropped
textDecode(bytes) ==
    LET units == utf8Decode(bytes)
    IN  IF units # <<>> /\ units[1] = 65279 THEN Tail(units) ELSE units

\* the sum of bytes, modulo 256
RECURSIVE sum(_)
sum(bytes) == IF bytes = <<>> THEN 0 ELSE (bytes[1] + sum(Tail(bytes))) % 256

\* AES-GCM: a key stream from the key and the iv, and a 16-byte tag over the
\* key, the iv and the ciphertext
TagBytes == 16
keyStream(key, iv, i) == (7 * sum(key.ikm) + 3 * sum(iv) + 11 * i) % 256
tagOf(key, iv, ciphertext) == Rep((5 * sum(key.ikm) + sum(iv) + sum(ciphertext) + 1) % 256, TagBytes)

\* crypto.subtle.encrypt({name: "AES-GCM", iv}, key, data): ciphertext, then tag
subtleEncrypt(key, iv, data) ==
    LET ciphertext == [i \in 1..Len(data) |-> (data[i] + keyStream(key, iv, i)) % 256]
    IN  ciphertext \o tagOf(key, iv, ciphertext)

\* crypto.subtle.decrypt: rejects when the data is shorter than a tag or the tag is another
subtleDecrypt(key, iv, data) ==
    IF Len(data) < TagBytes THEN [ok |-> FALSE]
    ELSE LET ciphertext == SubSeq(data, 1, Len(data) - TagBytes)
         IN  IF SubSeq(data, Len(data) - TagBytes + 1, Len(data)) # tagOf(key, iv, ciphertext)
             THEN [ok |-> FALSE]
             ELSE [ok |-> TRUE,
                   data |-> [i \in 1..Len(ciphertext) |->
                                (ciphertext[i] + 256 - keyStream(key, iv, i)) % 256]]

\* Uint8Array.prototype.slice(from, to), from and to counted from 0
slice(bytes, from, to) ==
    SubSeq(bytes, (IF from < Len(bytes) THEN from ELSE Len(bytes)) + 1,
                  IF to < Len(bytes) THEN to ELSE Len(bytes))

\* crypto.ts generateClientKeys for a drawn secret key
clientKeysOf(privateKey) ==
    [publicKeyHex |-> bytesToHex(secp256k1GetPublicKey(privateKey)), privateKey |-> privateKey]

\* crypto.ts encryptMessageWithClientKeys (125-160) with the nonce of a draw
\* of the random source: the hex text, or what it throws
encryptMessageBytes(plaintext, modelPubKeyHex, clientKeys, seed) ==
    LET modelPubKeyBytes == normalizePubKey(modelPubKeyHex)
        sharedSecretFull == secp256k1GetSharedSecret(clientKeys.privateKey, modelPubKeyBytes)
    IN  IF ~sharedSecretFull.ok THEN [ok |-> FALSE]
        ELSE LET sharedSecret == slice(sharedSecretFull.point, 1, 33)
                 derivedKey == hkdf(sharedSecret)
                 nonce == getRandomValues(12, seed)
                 plaintextBytes == textEncode(plaintext)
                 ciphertextWithTag == subtleEncrypt(derivedKey, nonce, plaintextBytes)
                 ephemeralPub == normalizePubKey(clientKeys.publicKeyHex)
             IN  [ok |-> TRUE, hex |-> bytesToHex(ephemeralPub \o nonce \o ciphertextWithTag)]

\* crypto.ts decryptResponse (162-194): the text, or a rejection
decryptResponseBytes(encryptedHex, clientPrivateKey) ==
    LET data == hexToBytes(encryptedHex)
        ephemeralPub == slice(data, 0, 65)
        nonce == slice(data, 65, 77)
        ciphertextWithTag == slice(data, 77, Len(data))
        sharedSecretFull == secp256k1GetSharedSecret(clientPrivateKey, ephemeralPub)
    IN  IF ~sharedSecretFull.ok THEN [ok |-> FALSE]
        ELSE LET derivedKey == hkdf(slice(sharedSecretFull.point, 1, 33))
                 decrypted == subtleDecrypt(derivedKey, nonce, ciphertextWithTag)
             IN  IF decrypted.ok THEN [ok |-> TRUE, text |-> textDecode(decrypted.data)]
                 ELSE [ok |-> FALSE]

\* ---- one message sent to the holder of the model key

MaxPlain == 2
\* the code units of a, e with acute, the euro sign, U+FEFF, and the two
\* halves of the surrogate pair of U+1F600
CodeUnits == {97, 233, 8364, 65279, 55357, 56832}
PlainTexts == UNION {[1..n -> CodeUnits] : n \in 0..MaxPlain}

SecretKeys == {2, 3, 5}

\* the ways the report may give a public key: 64 raw bytes or the 65 bytes
\* with the prefix, with or without 0x
keyTexts(privateKey) ==
    LET full == secp256k1GetPublicKey(privateKey)
    IN  {bytesToHex(full), <<"0", "x">> \o bytesToHex(full),
         bytesToHex(Tail(full)), <<"0", "x">> \o bytesToHex(Tail(full))}

Pending == [ok |-> FALSE, pending |-> TRUE]

EciesIdle == ec = [pc |-> "idle"]

EciesInit ==
    \E plaintext \in PlainTexts, a \in SecretKeys, b \in SecretKeys, seed \in 0..1 :
        \E modelPubKeyHex \in keyTexts(b) :
            ec = [pc |-> "encrypt", plaintext |-> plaintext, clientKeys |-> clientKeysOf(a),
                  modelPrivateKey |-> b, modelPubKeyHex |-> modelPubKeyHex, seed |-> seed,
                  encrypted |-> Pending, decrypted |-> Pending]

\* the client encrypts the message
EciesEncrypt ==
    /\ ec.pc = "encrypt"
    /\ ec' = [ec EXCEPT !.pc = "decrypt",
                        !.encrypted = encryptMessageBytes(ec.plaintext, ec.modelPubKeyHex,
                                                          ec.clientKeys, ec.seed)]
    /\ UNCHANGED notEciesVars

\* the holder of the model key opens it
EciesDecrypt ==
    /\ ec.pc = "decrypt"
    /\ ec.encrypted.ok
    /\ ec' = [ec EXCEPT !.pc = "done",
                        !.decrypted = decryptResponseBytes(ec.encrypted.hex, ec.modelPrivateKey)]
    /\ UNCHANGED notEciesVars

EciesNext == EciesEncrypt \/ EciesDecrypt

\* the blob is the hex text, without 0x, of the client's 65-byte public key,
\* the 12-byte nonce and the ciphertext with its tag, in that order
laidOut(hex, plaintext, clientKeys, seed) ==
    /\ isHex(hex)
    /\ hex = toLowerCase(hex)
    /\ Len(hex) = 2 * (65 + 12 + Len(textEncode(plaintext)) + TagBytes)
    /\ SubSeq(hex, 1, 130) = bytesToHex(secp256k1GetPublicKey(clientKeys.privateKey))
    /\ SubSeq(hex, 131, 154) = bytesToHex(getRandomValues(12, seed))

\* a string whose decoding gives it back: every surrogate has its partner and
\* the first code unit is not U+FEFF
wellFormed(units) ==
    /\ units = <<>> \/ units[1] # 65279
    /\ \A i \in 1..Len(units) :
          /\ isHigh(units[i]) => i < Len(units) /\ isLow(units[i + 1])
          /\ isLow(units[i]) => i > 1 /\ isHigh(units[i - 1])

\* C25 as stated: for every plaintext P the decryption under the model's
\* private key returns P, and the blob is laid out as public key, nonce,
\* ciphertext with tag.
C25_RoundTripAsStated ==
    ec.pc = "done" =>
        /\ ec.decrypted = [ok |-> TRUE, text |-> ec.plaintext]
        /\ laidOut(ec.encrypted.hex, ec.plaintext, ec.clientKeys, ec.seed)

\* C25: for every well-formed plaintext P that does not start with U+FEFF,
\* every client keypair A and model keypair B, with B's public key given as 64
\* raw or 65 prefixed bytes, with or without 0x, the encryption succeeds, the
\* decryption under B's private key returns P, and the blob is the un-prefixed
\* hex of A's 65-byte public key, the 12-byte nonce and the ciphertext with
\* tag, in that order; for every other P the decryption still succeeds.
C25_RoundTrip ==
    /\ ec.pc = "decrypt" => ec.encrypted.ok
    /\ ec.pc = "done" =>
          /\ ec.decrypted.ok
          /\ wellFormed(ec.plaintext) => ec.decrypted.text = ec.plaintext
          /\ laidOut(ec.encrypted.hex, ec.plaintext, ec.clientKeys, ec.seed)

\* a surrogate pair came back as it was sent, for a model key that was given
\* as 64 raw bytes with 0x
C25_Witness ==
    /\ ec.pc = "done"
    /\ ec.plaintext = <<55357, 56832>>
    /\ Len(ec.modelPubKeyHex) = 130 /\ startsWith0x(ec.modelPubKeyHex)
    /\ ec.clientKeys.privateKey # ec.modelPrivateKey
    /\ ec.decrypted = [ok |-> TRUE, text |-> ec.plaintext]

----------------------------------------------------------------------------
(* One streaming exchange: page.tsx handleSubmit around streamChat *)

MaxChunks == 2
Texts == {"hi"}
Chunks == {"a", "b"}

\* what streamChat resolves with, next to the content: no verification (no chat
\* id was seen) or a ChatVerificationResult
Verifications ==
    {NoReport} \cup
    {[kind |-> "verification", chatId |-> "chat-1", signatureFetched |-> fetched,
      signatureTextMatches |-> matches] :
        fetched \in BOOLEAN, matches \in BOOLEAN}

\* handleSubmit's updater for the user's message (page.tsx 370-376); "..." stands
\* for the one-character ellipsis
withUserMessage(c, userMsg, text) ==
    [c EXCEPT !.messages = Append(c.messages, userMsg),
              !.title = IF Len(c.messages) = 0
                        THEN (IF Len(text) > 42 THEN SubSeq(text, 1, 42) \o "..." ELSE text)
                        ELSE c.title]

\* page.tsx handleSubmit up to its await (358-390 and 432): the closure keeps the
\* activeConvoId, the passphrase and the attestation of the render it ran in
handleSubmit(text) ==
    /\ text # "" /\ ~isTyping /\ vaultPassphrase # ""
    /\ Len(calls) + 2 <= MaxCalls
    /\ LET userMsg == [role |-> "user", content |-> text, timestamp |-> now, encrypted |-> TRUE]
           u == updateConversation(conversations, activeConvoId, vaultPassphrase,
                                   [c \in each(conversations) |-> withUserMessage(c, userMsg, text)])
       IN /\ conversations' = u.conversations
          /\ calls' = calls \o u.saves
    /\ isTyping' = TRUE
    /\ streamingContent' = ""
    /\ abortRef' = FALSE
    /\ stream' = [pc |-> IF attestation # NoReport \/ apiKey # "" \/ ~apiKeyRequired
                         THEN "streaming" ELSE "fallback",
                  activeConvoId |-> activeConvoId,
                  passphrase |-> vaultPassphrase,
                  attested |-> attestation # NoReport,
                  text |-> text,
                  content |-> "",
                  chunks |-> 0,
                  abandoned |-> FALSE]
    /\ UNCHANGED <<now, uuids, vaultPassphrase, vaultModalOpen, vaultError, activeConvoId, store,
                   load, lastVerification, notPageVars>>

\* streamChat delivers one chunk: it adds it to its content and calls onChunk
\* (near-ai.ts 129-131, page.tsx 393-395)
StreamChunk(chunk) ==
    /\ stream.pc = "streaming"
    /\ stream.chunks < MaxChunks
    /\ stream' = [stream EXCEPT !.content = stream.content \o chunk, !.chunks = stream.chunks + 1]
    /\ streamingContent' = IF ~abortRef THEN streamingContent \o chunk ELSE streamingContent
    /\ UNCHANGED <<vaultVars, isTyping, lastVerification, abortRef, notPageVars>>

\* the end of handleSubmit (page.tsx 445-446)
endOfSubmit ==
    /\ isTyping' = FALSE
    /\ streamingContent' = ""
    /\ stream' = StreamIdleCall

\* the updateConversation of handleSubmit's closure, appending one message
appendMessage(msg) ==
    LET u == updateConversation(conversations, stream.activeConvoId, stream.passphrase,
                                [c \in each(conversations) |->
                                    [c EXCEPT !.messages = Append(c.messages, msg)]])
    IN /\ conversations' = u.conversations
       /\ calls' = calls \o u.saves
       /\ Len(calls') <= MaxCalls

\* streamChat resolves (page.tsx 399-409)
StreamFinish(verification) ==
    /\ stream.pc = "streaming"
    /\ appendMessage([role |-> "assistant", content |-> stream.content, timestamp |-> now,
                      encrypted |-> stream.attested,
                      chatId |-> IF verification = NoReport THEN undefined ELSE verification.chatId])
    /\ lastVerification' = IF verification # NoReport THEN verification ELSE lastVerification
    /\ endOfSubmit
    /\ UNCHANGED <<now, uuids, vaultPassphrase, vaultModalOpen, vaultError, activeConvoId, store,
                   load, abortRef, notPageVars>>

\* streamChat rejects (page.tsx 410-420)
StreamFail ==
    /\ stream.pc = "streaming"
    /\ appendMessage([role |-> "assistant",
                      content |-> "Sorry, I encountered an error connecting to NEAR AI.",
                      timestamp |-> now, encrypted |-> FALSE])
    /\ endOfSubmit
    /\ UNCHANGED <<now, uuids, vaultPassphrase, vaultModalOpen, vaultError, activeConvoId, store,
                   load, lastVerification, abortRef, notPageVars>>

\* without credential and attestation: the canned answer after the delay (page.tsx 421-433)
FallbackDone ==
    /\ stream.pc = "fallback"
    /\ appendMessage([role |-> "assistant", content |-> "fallback", timestamp |-> now,
                      encrypted |-> FALSE])
    /\ endOfSubmit
    /\ UNCHANGED <<now, uuids, vaultPassphrase, vaultModalOpen, vaultError, activeConvoId, store,
                   load, lastVerification, abortRef, notPageVars>>

\* the page with the vault unlocked and loaded from an empty store, before the
\* attestation effect has run or after its check has failed
StreamInit ==
    /\ AttestIdle /\ VerifyIdle
    /\ cachedAttestation = NoReport /\ apiKey = "" /\ attestation = NoReport
    /\ apiKeyRequired \in BOOLEAN
    /\ effectDue = ~apiKeyRequired
    /\ inflight = {} /\ fetchCount = 0 /\ cachedCred = "" /\ lastDone = NoCall
    /\ firstReturned = NoReport /\ lastCall = NoReport
    /\ now = PageLoadMs
    /\ uuids = 1
    /\ vaultPassphrase \in Passphrases
    /\ vaultModalOpen = FALSE
    /\ vaultError = ""
    /\ conversations = <<createEmptyConvo(randomUUID(1), PageLoadMs, 24)>>
    /\ activeConvoId = randomUUID(1)
    /\ store = {}
    /\ calls = <<>>
    /\ load = LoadIdle
    /\ swept = NoSweep
    /\ StreamIdle
    /\ ChatIdle
    /\ EciesIdle

StreamNext ==
    \/ \E text \in Texts : handleSubmit(text)
    \/ \E chunk \in Chunks : StreamChunk(chunk)
    \/ \E verification \in Verifications : StreamFinish(verification)
    \/ StreamFail
    \/ FallbackDone
    \/ handleNewConversation
    \/ \E id \in ConvoIds : SelectConversation(id)
    \/ \E n \in DOMAIN calls : SaveOpenDB(n)
    \/ \E n \in DOMAIN calls : SaveEncrypt(n)
    \/ \E n \in DOMAIN calls : SavePut(n)

\* C4: after the user has left the conversation of a running exchange, the steps
\* of that exchange (a chunk, the result, the failure) leave conversations and
\* lastVerification as they are and add nothing to streamingContent.
C4_AbandonedStreamDiscarded ==
    [][(stream.pc = "streaming" /\ stream.abandoned /\ stream' # stream)
          => (/\ streamingContent' \in {streamingContent, ""}
              /\ conversations' = conversations
              /\ lastVerification' = lastVerification)]_vars

-----------------------------------------------------------------------------
(* Retention on a clock that stops on both sides of an expiry *)

\* when the conversations of the earlier session were created
CreatedMs == PageLoadMs - 500

\* the times at which the sweep is looked at: a millisecond before the expiry of
\* a conversation created at CreatedMs with retentionHours = 1, the expiry, and
\* a millisecond after it
SweepTimes == {CreatedMs + HourMs - 1, CreatedMs + HourMs, CreatedMs + HourMs + 1}

\* the conversations a load has delivered: each was made by createEmptyConvo
LoadedLists ==
    { <<createEmptyConvo("s1", CreatedMs, h)>> : h \in RetentionChoices }
    \cup { <<createEmptyConvo("s1", CreatedMs, h1), createEmptyConvo("s2", CreatedMs, h2)>> :
             h1 \in RetentionChoices, h2 \in RetentionChoices }

\* the vault is unlocked, the load has delivered the conversations of the store
\* and no sweep has found anything to do yet
SweepInit ==
    /\ now = PageLoadMs
    /\ uuids = 1
    /\ vaultPassphrase = "p1"
    /\ vaultModalOpen = FALSE
    /\ vaultError = ""
    /\ conversations \in LoadedLists
    /\ activeConvoId = conversations[1].id
    /\ store = {[key |-> conversations[i].id, value |-> putOf(conversations[i], "p1", 0)] :
                    i \in DOMAIN conversations}
    /\ calls = <<>>
    /\ load = LoadIdle
    /\ swept = NoSweep

\* the clock reaches one of the times
Elapse(at) ==
    /\ now < at
    /\ now' = at
    /\ UNCHANGED <<uuids, vaultPassphrase, vaultModalOpen, vaultError, conversations,
                   activeConvoId, store, calls, load, notVaultVars>>

\* here the user changes the retention when the storage calls have settled
SweepNext ==
    \/ \E at \in SweepTimes : Elapse(at)
    \/ PurgeTimer
    \/ \E hours \in RetentionChoices : quiet /\ handleSetRetention(hours)
    \/ \E id \in StoredIds : SelectConversation(id)
    \/ \E n \in DOMAIN calls : SaveOpenDB(n)
    \/ \E n \in DOMAIN calls : SaveEncrypt(n)
    \/ \E n \in DOMAIN calls : SavePut(n)
    \/ \E n \in DOMAIN calls : DeleteOpenDB(n)
    \/ \E n \in DOMAIN calls : DeleteTx(n)

\* a conversation's expiry has been reached at a time
reached(c, at) == c.expiresAt # null /\ c.expiresAt <= at

C22_ExpiryCountsFromCreation ==
    \A c \in each(conversations) :
        c.expiresAt = IF c.retentionHours # null /\ c.retentionHours # 0
                      THEN c.createdAt + c.retentionHours * 3600000
                      ELSE null

\* C23: in every state where the vault is locked, the conversations in memory
\* hold no message that was decrypted from the store or entered by the user.
C23_LockDestroysPlaintext ==
    vaultPassphrase = "" => \A c \in each(conversations) : c.messages = <<>>

\* the sweep with the vault being locked and unlocked: the user locks and
\* unlocks when the storage calls have settled, and leaves the retention alone
RetentionNext ==
    \/ \E at \in SweepTimes : Elapse(at)
    \/ PurgeTimer
    \/ quiet /\ lockVault
    \/ \E passphrase \in Passphrases : quiet /\ UnlockVault(passphrase)
    \/ LoadGetAll
    \/ LoadDecrypt
    \/ LoadDone
    \/ \E n \in DOMAIN calls : DeleteOpenDB(n)
    \/ \E n \in DOMAIN calls : DeleteTx(n)

\* the timer fires as long as it is set, and the browser completes the storage
\* calls that were issued
RetentionFairness ==
    /\ WF_vars(PurgeTimer)
    /\ WF_vars(LoadGetAll)
    /\ WF_vars(LoadDecrypt)
    /\ WF_vars(LoadDone)
    /\ WF_vars(\E n \in DOMAIN calls : DeleteOpenDB(n))
    /\ WF_vars(\E n \in DOMAIN calls : DeleteTx(n))

\* the conversation id is in memory or in the store with its expiry reached
expiryReached(id) ==
    \/ \E c \in each(conversations) : c.id = id /\ reached(c, now)
    \/ valueOf(store, id) # NoRecord /\ reached(valueOf(store, id).conversation, now)

\* C24: with the sweep timer firing fairly, a conversation whose expiresAt is
\* set and has been reached is eventually gone from both the conversations in
\* memory and the store, whatever locking and unlocking happens in between.
C24_ExpiredEventuallyPurged ==
    \A id \in StoredIds :
        expiryReached(id) ~> (~has(conversations, id) /\ valueOf(store, id) = NoRecord)

\* C26: the encrypted records of the store all open under one common
\* passphrase: no save is performed under a passphrase that has not opened the
\* records already stored.
C26_OnePassphraseOpensAll ==
    \E passphrase \in Passphrases :
        \A e \in store :
            e.value.v = 1 => decryptConversation(recordOf(e.value), passphrase).ok

\* C28: for every conversation id that a sweep removes from the conversations
\* in memory, the same sweep issues deleteConversation(id), whether the state
\* updater runs inside setConversations or is deferred.
C28_SweepDeletesWhatItRemoves ==
    swept # NoSweep =>
        \A c \in each(swept.before) :
            ~has(swept.after, c.id) => \E i \in DOMAIN swept.issued : swept.issued[i] = c.id

\* the page with the vault being locked and unlocked, conversations started
\* and selected, and everything deleted
PageNext ==
    \/ RetentionNext
    \/ quiet /\ handleNewConversation
    \/ \E id \in StoredIds \cup ConvoIds : quiet /\ SelectConversation(id)
    \/ quiet /\ handleDeleteAll
    \/ \E n \in DOMAIN calls : ClearOpenDB(n)
    \/ \E n \in DOMAIN calls : ClearTx(n)

\* C30: in every reachable state the conversations list is not empty and
\* activeConvoId is the id of one of its conversations.
C30_ActiveConversationExists ==
    /\ Len(conversations) > 0
    /\ has(conversations, activeConvoId)

\* a sweep has removed the conversation that was active and kept another, which
\* is the active one now
C30_Witness ==
    /\ swept # NoSweep
    /\ Len(swept.before) = 2
    /\ ~has(swept.after, swept.before[1].id)
    /\ conversations = swept.after
    /\ activeConvoId = swept.before[2].id

----------------------------------------------------------------------------
(* The specifications *)

Init == AttestIdle /\ VerifyIdle /\ CacheIdle /\ VaultIdle /\ StreamIdle /\ ChatIdle /\ EciesIdle

Spec == Init /\ [][Next]_vars

AttestSpecInit == AttestInit /\ VerifyIdle /\ CacheIdle /\ VaultIdle /\ StreamIdle /\ ChatIdle /\ EciesIdle

SpecAttest == AttestSpecInit /\ [][AttestNext]_vars

VerifyNext == BuildVerification

VerifySpecInit == VerifyInit /\ AttestIdle /\ CacheIdle /\ VaultIdle /\ StreamIdle /\ ChatIdle /\ EciesIdle

SpecVerify == VerifySpecInit /\ [][VerifyNext]_vars

SpecVault == Init /\ [][VaultNext]_vars

SpecStream == StreamInit /\ [][StreamNext]_vars

ChatSpecInit == ChatInit /\ AttestIdle /\ VerifyIdle /\ CacheIdle /\ VaultIdle /\ StreamIdle /\ EciesIdle

SpecChat == ChatSpecInit /\ [][ChatNext]_vars

StoreSpecInit == StoreInit /\ AttestIdle /\ VerifyIdle /\ CacheIdle /\ StreamIdle /\ ChatIdle /\ EciesIdle

SpecStore == StoreSpecInit /\ [][StoreNext]_vars

SweepSpecInit == SweepInit /\ AttestIdle /\ VerifyIdle /\ CacheIdle /\ StreamIdle /\ ChatIdle /\ EciesIdle

SpecSweep == SweepSpecInit /\ [][SweepNext]_vars

SpecRetention == SweepSpecInit /\ [][RetentionNext]_vars /\ RetentionFairness

EciesSpecInit == EciesInit /\ AttestIdle /\ VerifyIdle /\ CacheIdle /\ VaultIdle /\ StreamIdle /\ ChatIdle

SpecEcies == EciesSpecInit /\ [][EciesNext]_vars

SpecPage == SweepSpecInit /\ [][PageNext]_vars
====
